---------------------------- MODULE Spec2Model ----------------------------
(* PerpTrader signal-to-execution pipeline: the OrderEngine (gate,          *)
(* execution orchestrator, fill supervisor, active-signal tracker) together *)
(* with the signal parser it calls and the exchange it talks to.            *)
(*                                                                          *)
(* JavaScript runs each handler to its next await without interruption, so  *)
(* one action is one such segment: from the event that resumes a task to    *)
(* the exchange call on which it suspends next.                             *)
EXTENDS Integers, Sequences, FiniteSets, TLC

VARIABLES
    instruments,        \* OrderEngine.instruments
    whitelist,          \* rows of the trader_whitelist table
    prefs,              \* the preferences row, as getPreferences() returns it
    processedMessages,  \* OrderEngine.processedMessages
    activeSignals,      \* OrderEngine.activeSignals: messageId -> record
    pendingFills,       \* OrderEngine.pendingFills: orderId -> context
    execs,              \* the executeSignal invocations, in order of start
    exOrders,           \* exchange side: entry orders it accepted, by id
    polls,              \* deferred polls (_tryPlaceTrailingStop), by order id
    stops,              \* _placeTrailingStop placements, by order id
    orderHistory,       \* rows of the order_history table
    fillsSeen,          \* orderFilled notifications delivered, by order id
    gateLog,            \* what the latest processMessage call did
    editLog,            \* what the latest processMessageEdit call did
    gateway,            \* DiscordProvider: message updates and pending fetches
    limiter,            \* a RateLimiter and the acquire() calls on it
    pure,               \* a call of a pure function: its arguments and result
    ws                  \* BlofinWebSocket: the private socket and its reconnect timer

\* the engine with its tables and the exchange
engineVars == <<instruments, whitelist, prefs, processedMessages, activeSignals,
                pendingFills, execs, exOrders, polls, stops, orderHistory,
                fillsSeen, gateLog>>

\* the chat gateway and the edits it forwards
chatVars == <<editLog, gateway>>

\* utilities
utilVars == <<limiter, pure, ws>>

vars == <<engineVars, chatVars, utilVars>>

-----------------------------------------------------------------------------
(* Bounds *)

\* executions started in a run of the chat-side specification (SpecGate)
MaxExec == 2

\* executions started in a run of the whole engine (Spec)
MaxRun == 1

\* how often the exchange may repeat the fill notification of one order
MaxNotify == 2

\* message updates the chat source delivers in a run (SpecEdit)
MaxEdits == 3
MaxParses == 2
MaxNow == 1
MaxRequests == 1
WindowMs == 4
SafetyMargin == 1

\* unexpected closures of the private socket in a run (SpecSocket)
MaxDrops == 2

MsgIds == {"m1", "m2"}

-----------------------------------------------------------------------------
(* Message texts. A text is a sequence of tokens, each standing for one     *)
(* stretch of the message that one of the parser's regular expressions      *)
(* matches: k is the kind, s and t carry strings, n a level, p a price.     *)

Tok(k, s, t, n, p) == [k |-> k, s |-> s, t |-> t, n |-> n, p |-> p]

SideSignal(side, ticker) == Tok("sideSignal", side, ticker, 0, 0)
TraderBody(name) == Tok("traderBody", name, "", 0, 0)
Leverage(x) == Tok("lev", "", "", 0, x)
Entry(price) == Tok("entry", "", "", 0, price)
Dca(level, price) == Tok("dca", "", "", level, price)
Closed == Tok("closed", "", "", 0, 0)
Tp(level, price, hit) == Tok("tp", hit, "", level, price)
TpCheck(level) == Tok("tpCheck", "", "", level, 0)
Pnl(label, value) == Tok("pnl", label, value, 0, 0)
Word == Tok("word", "", "", 0, 0)

Texts ==
    [ longBTC   |-> <<SideSignal("LONG", "BTC"), Leverage(25), TraderBody("alice"),
                      Entry(100), Dca(1, 90), Dca(2, 80)>>,
      shortETH  |-> <<SideSignal("SHORT", "ETH"), TraderBody("Alice")>>,
      closedBTC |-> <<SideSignal("LONG", "BTC"), TraderBody("alice"), Entry(100), Closed>>,
      closedXYZ |-> <<SideSignal("LONG", "XYZ"), TraderBody("bob"), Entry(100), Closed>>,
      longXYZ   |-> <<SideSignal("LONG", "XYZ"), TraderBody("bob"), Entry(100)>>,
      chat      |-> <<Word, Word>> ]

Contents == DOMAIN Texts

\* the texts a tracked message is edited to
EditTexts ==
    [ tp1    |-> <<SideSignal("LONG", "BTC"), TraderBody("alice"), Entry(100),
                   Tp(1, 110, "HIT"), Tp(2, 120, "")>>,
      tp12   |-> <<SideSignal("LONG", "BTC"), TraderBody("alice"), Entry(100),
                   Tp(1, 110, "HIT"), Tp(2, 120, ""), TpCheck(2)>>,
      closed |-> <<SideSignal("LONG", "BTC"), TraderBody("alice"), Entry(100),
                   Tp(1, 110, "HIT"), Tp(2, 120, ""), Closed>>,
      gone   |-> <<Word>> ]

EditContents == DOMAIN EditTexts

-----------------------------------------------------------------------------
(* signalParser.js *)

Min(S) == CHOOSE x \in S : \A y \in S : x <= y

\* index of the first token of one of the kinds, 0 when there is none
FirstIdx(content, kinds) ==
    LET I == {i \in 1..Len(content) : content[i].k \in kinds}
    IN  IF I = {} THEN 0 ELSE Min(I)

SelectKind(content, kind) == SelectSeq(content, LAMBDA tk : tk.k = kind)

ToLower(s) ==
    CASE s = "LONG" -> "long"
      [] s = "SHORT" -> "short"
      [] s = "Alice" -> "alice"
      [] s = "BOB" -> "bob"
      [] OTHER -> s

NoSignal ==
    [ok |-> FALSE, signalId |-> "", ticker |-> "", instId |-> "", side |-> "",
     entryPrice |-> 0, leverage |-> 0, traderName |-> "", dcaLevels |-> <<>>,
     isClosed |-> FALSE, messageType |-> "", tpLevels |-> <<>>, finalPnl |-> ""]

\* the first 12 hex digits of the md5 of the message id or, without one, of
\* side-instId-entryPrice-Date.now(): two ids are equal here exactly when the
\* hashed strings are
\* mutant: the parse time enters the signalId also when the message has an id
SignalId_Timed(messageId, side, instId, entryPrice, now) ==
    <<"md5", messageId, now>>

SignalId(messageId, side, instId, entryPrice, now) ==
    IF messageId # "" THEN <<"md5", messageId>>
    ELSE <<"md5", side, instId, entryPrice, now>>

\* lines 96-114: the TPn levels in text order, each hit when its own text says
\* HIT; a check-marked TPn marks the first listed level n as hit
TpLevels(content) ==
    LET tps    == SelectKind(content, "tp")
        checks == {t.n : t \in {content[i] : i \in {j \in 1..Len(content) :
                                                       content[j].k = "tpCheck"}}}
        First(i) == \A j \in 1..(i - 1) : tps[j].n # tps[i].n
    IN  [i \in 1..Len(tps) |->
            [level |-> tps[i].n, price |-> tps[i].p,
             hit |-> tps[i].s = "HIT" \/ (tps[i].n \in checks /\ First(i))]]

\* lines 131-136: the percentage after the first "Final P&L:", else after the
\* first "Final profit:", else after the first "P&L:"; null ("" here) when the
\* text has none
FinalPnl(content) ==
    LET At(label) == {i \in 1..Len(content) :
                         content[i].k = "pnl" /\ content[i].s = label}
    IN  IF At("Final P&L") # {} THEN content[Min(At("Final P&L"))].t
        ELSE IF At("Final profit") # {} THEN content[Min(At("Final profit"))].t
        ELSE IF At("P&L") # {} THEN content[Min(At("P&L"))].t
        ELSE ""

\* a price or leverage that is absent, non-numeric or not positive is null (0 here)
parseSignalAt(content, messageId, seenMessageIds, now) ==
    LET sideSig == FirstIdx(content, {"sideSignal"})
        sideAny == FirstIdx(content, {"sideSignal", "side"})
        tickers == {i \in 1..Len(content) :
                        content[i].k = "sideSignal" /\ content[i].t # ""}
        header  == FirstIdx(content, {"header"})
        ticker  == IF tickers # {} THEN content[Min(tickers)].t
                   ELSE IF header # 0 THEN content[header].t ELSE ""
        trHdr   == FirstIdx(content, {"traderHeader"})
        trBody  == FirstIdx(content, {"traderBody"})
        lev     == FirstIdx(content, {"lev"})
        entry   == FirstIdx(content, {"entry"})
        dcas    == SelectKind(content, "dca")
        side    == ToLower(content[IF sideSig # 0 THEN sideSig ELSE sideAny].s)
        price   == IF entry # 0 /\ content[entry].p > 0 THEN content[entry].p ELSE 0
    IN  IF Len(content) = 0 \/ sideAny = 0 \/ ticker = "" THEN NoSignal
        ELSE [ok |-> TRUE,
              signalId |-> SignalId(messageId, side, ticker \o "-USDT", price, now),
              tpLevels |-> TpLevels(content),
              ticker |-> ticker,
              instId |-> ticker \o "-USDT",
              side |-> ToLower(content[IF sideSig # 0 THEN sideSig ELSE sideAny].s),
              entryPrice |-> IF entry # 0 /\ content[entry].p > 0
                             THEN content[entry].p ELSE 0,
              leverage |-> IF lev # 0 THEN content[lev].p ELSE 0,
              traderName |-> IF trHdr # 0 THEN content[trHdr].s
                             ELSE IF trBody # 0 THEN content[trBody].s ELSE "",
              dcaLevels |-> [i \in 1..Len(dcas) |->
                                [level |-> dcas[i].n, price |-> dcas[i].p]],
              isClosed |-> FirstIdx(content, {"closed"}) # 0,
              finalPnl |-> FinalPnl(content),
              messageType |-> IF messageId \in seenMessageIds
                              THEN "edit_update" ELSE "new_signal"]

\* parseSignal as the engine calls it. The parse time enters the signalId only
\* when the message has no id; it is 0 here.
parseSignal(content, messageId, seenMessageIds) ==
    parseSignalAt(content, messageId, seenMessageIds, 0)

\* validateSignal as processMessage calls it: no current price is passed
validateSignal(signal, knownInstruments) ==
    IF ~signal.ok THEN [valid |-> FALSE, reason |-> <<"Null signal", "">>]
    ELSE IF signal.instId \notin knownInstruments
    THEN [valid |-> FALSE, reason |-> <<"Unknown instrument", signal.instId>>]
    ELSE [valid |-> TRUE, reason |-> <<"", "">>]

-----------------------------------------------------------------------------
(* preferenceManager.js *)

isWhitelistEmpty == whitelist = {}

\* mutant: the whitelist lookup compares letter case
isTraderWhitelisted_CaseSensitive(traderName) ==
    IF traderName = "" THEN FALSE
    ELSE \E w \in whitelist : w = traderName

\* trader_name = ? COLLATE NOCASE
isTraderWhitelisted(traderName) ==
    IF traderName = "" THEN FALSE
    ELSE \E w \in whitelist : ToLower(w) = ToLower(traderName)

\* the preferences rows the model runs under (one is chosen at start-up)
PrefProfiles ==
    { [orderAmount |-> 50, orderType |-> "limit", marginMode |-> "cross",
       leverage |-> 20, trailingStopVariance |-> 2, trailingStopType |-> "tpsl",
       confirmBeforeOrder |-> FALSE, slippagePercent |-> 1,
       leverageSource |-> "signal", useDca |-> TRUE, dcaMode |-> "auto"],
      [orderAmount |-> 50, orderType |-> "market", marginMode |-> "cross",
       leverage |-> 20, trailingStopVariance |-> 2, trailingStopType |-> "algo",
       confirmBeforeOrder |-> FALSE, slippagePercent |-> 1,
       leverageSource |-> "saved", useDca |-> FALSE, dcaMode |-> "auto"],
      [orderAmount |-> 50, orderType |-> "limit", marginMode |-> "isolated",
       leverage |-> 30, trailingStopVariance |-> 2, trailingStopType |-> "algo",
       confirmBeforeOrder |-> TRUE, slippagePercent |-> 1,
       leverageSource |-> "max", useDca |-> TRUE, dcaMode |-> "display"],
      [orderAmount |-> 50, orderType |-> "limit", marginMode |-> "isolated",
       leverage |-> 20, trailingStopVariance |-> 2, trailingStopType |-> "tpsl",
       confirmBeforeOrder |-> FALSE, slippagePercent |-> 1,
       leverageSource |-> "max", useDca |-> TRUE, dcaMode |-> "display"] }

getPreferences == prefs

-----------------------------------------------------------------------------
(* Events of the engine's outcome stream, and exchange requests *)

Ev(type, r1, r2) == [type |-> type, reason |-> <<r1, r2>>]

Types(evs) == [i \in 1..Len(evs) |-> evs[i].type]

\* a map with one more (or one changed) entry, and with one entry less
Put(f, k, v) == [i \in DOMAIN f \cup {k} |-> IF i = k THEN v ELSE f[i]]

Del(f, k) == [i \in DOMAIN f \ {k} |-> f[i]]

Count(seq, x) == Cardinality({i \in 1..Len(seq) : seq[i] = x})

NoSize == [m |-> 0, e |-> 0]

Call(op) ==
    [op |-> op, instId |-> "", positionSide |-> "", side |-> "", orderType |-> "",
     price |-> 0, size |-> NoSize, lev |-> 0, reduceOnly |-> FALSE]

-----------------------------------------------------------------------------
(* orderEngine.js: processMessage *)

\* mutant: the dedup check is missing
GateVerdict_NoDedup(signal, messageId) ==
    IF ~signal.ok THEN "noSignal"
    ELSE IF ~isWhitelistEmpty /\ ~isTraderWhitelisted(signal.traderName)
    THEN "notWhitelisted"
    ELSE IF signal.isClosed THEN "closed"
    ELSE IF ~validateSignal(signal, instruments).valid THEN "invalid"
    ELSE "accepted"

\* mutant: the instrument is validated before the whitelist and closed checks
GateVerdict_InstrumentFirst(signal, messageId) ==
    IF ~signal.ok THEN "noSignal"
    ELSE IF messageId \in processedMessages THEN "duplicate"
    ELSE IF ~validateSignal(signal, instruments).valid THEN "invalid"
    ELSE IF ~isWhitelistEmpty /\ ~isTraderWhitelisted(signal.traderName)
    THEN "notWhitelisted"
    ELSE IF signal.isClosed THEN "closed"
    ELSE "accepted"

\* mutant: the closed check is missing
GateVerdict_NoClosed(signal, messageId) ==
    IF ~signal.ok THEN "noSignal"
    ELSE IF messageId \in processedMessages THEN "duplicate"
    ELSE IF ~isWhitelistEmpty /\ ~isTraderWhitelisted(signal.traderName)
    THEN "notWhitelisted"
    ELSE IF ~validateSignal(signal, instruments).valid THEN "invalid"
    ELSE "accepted"

\* mutant: a message arriving while an execution is in flight is dropped
GateVerdict_Serialised(signal, messageId) ==
    IF ~signal.ok \/ (\E e \in 1..Len(execs) : execs[e].pc # "done")
    THEN "noSignal"
    ELSE IF messageId \in processedMessages THEN "duplicate"
    ELSE IF ~isWhitelistEmpty /\ ~isTraderWhitelisted(signal.traderName)
    THEN "notWhitelisted"
    ELSE IF signal.isClosed THEN "closed"
    ELSE IF ~validateSignal(signal, instruments).valid THEN "invalid"
    ELSE "accepted"

\* the gate's verdict on a parsed message: the first check that fails
GateVerdict(signal, messageId) ==
    IF ~signal.ok THEN "noSignal"
    ELSE IF messageId \in processedMessages THEN "duplicate"
    ELSE IF ~isWhitelistEmpty /\ ~isTraderWhitelisted(signal.traderName)
    THEN "notWhitelisted"
    ELSE IF signal.isClosed THEN "closed"
    ELSE IF ~validateSignal(signal, instruments).valid THEN "invalid"
    ELSE "accepted"

\* the signalRejected event of a verdict (none for the two silent verdicts)
GateEvents(verdict, signal) ==
    CASE verdict = "notWhitelisted" ->
            <<Ev("signalRejected", "Trader not whitelisted", signal.traderName)>>
      [] verdict = "closed" -> <<Ev("signalRejected", "Signal already closed", "")>>
      [] verdict = "invalid" ->
            <<[type |-> "signalRejected",
               reason |-> validateSignal(signal, instruments).reason]>>
      [] OTHER -> <<>>

\* the signal_log row logSignal writes for a verdict
GateLogged(verdict, signal) ==
    CASE verdict = "notWhitelisted" ->
            [written |-> TRUE, isValid |-> FALSE, wasExecuted |-> FALSE,
             rejectionReason |-> <<"Trader not whitelisted", signal.traderName>>]
      [] verdict = "closed" ->
            [written |-> TRUE, isValid |-> TRUE, wasExecuted |-> FALSE,
             rejectionReason |-> <<"Already closed", "">>]
      [] verdict = "invalid" ->
            [written |-> TRUE, isValid |-> FALSE, wasExecuted |-> FALSE,
             rejectionReason |-> validateSignal(signal, instruments).reason]
      [] verdict = "accepted" ->
            [written |-> TRUE, isValid |-> TRUE, wasExecuted |-> FALSE,
             rejectionReason |-> <<"", "">>]
      [] OTHER ->
            [written |-> FALSE, isValid |-> FALSE, wasExecuted |-> FALSE,
             rejectionReason |-> <<"", "">>]

\* mutant: the message is marked processed right after the dedup check
MarksProcessed_BeforeChecks(verdict) == verdict \notin {"noSignal", "duplicate"}

\* line 105 is reached, and the message marked processed, only past every check
MarksProcessed(verdict) == verdict = "accepted"

\* executeSignal up to its first await: execution:start, then getPositions
StartExec(signal, p, messageId, via) ==
    [msgId |-> messageId, via |-> via, signal |-> signal, prefs |-> p,
     pc |-> "getPositions", lev |-> 0, entryPrice |-> 0, mkt |-> 0,
     orderType |-> "", size |-> NoSize, wire |-> "", last |-> "", resp |-> "",
     dcaIdx |-> 0,
     calls |-> <<Call("getPositions")>>,
     ev |-> <<Ev("execution:start", "", "")>>]

\* mutant: an accepted signal is executed at once, confirmation or not
ProcessMessage_NoConfirm(messageId, c) ==
    LET signal  == parseSignal(Texts[c], messageId, processedMessages)
        verdict == GateVerdict(signal, messageId)
        p       == getPreferences
        run     == verdict = "accepted"
        accEv   == (IF Len(signal.dcaLevels) > 0
                    THEN <<Ev("signal:dcaDetected", "", "")>> ELSE <<>>)
                   \o <<Ev("signalAccepted", "", "")>>
                   \o (IF p.confirmBeforeOrder
                       THEN <<Ev("confirmRequired", "", "")>> ELSE <<>>)
    IN  /\ gateLog' = [msgId |-> messageId, content |-> c, verdict |-> verdict,
                       events |-> IF verdict = "accepted" THEN accEv
                                  ELSE GateEvents(verdict, signal),
                       logged |-> GateLogged(verdict, signal),
                       executed |-> run]
        /\ processedMessages' = IF MarksProcessed(verdict)
                                THEN processedMessages \cup {messageId}
                                ELSE processedMessages
        /\ IF verdict = "accepted"
           THEN /\ activeSignals' =
                      [m \in DOMAIN activeSignals \cup {messageId} |->
                          IF m = messageId THEN [signal |-> signal, version |-> 1]
                          ELSE activeSignals[m]]
                /\ execs' = IF run
                            THEN Append(execs, StartExec(signal, p, messageId, "processMessage"))
                            ELSE execs
           ELSE UNCHANGED <<activeSignals, execs>>
        /\ UNCHANGED <<chatVars, utilVars,
                       instruments, whitelist, prefs, pendingFills, exOrders,
                       polls, stops, orderHistory, fillsSeen>>

\* processMessage: parse, gate, track, and execute unless confirmation is wanted
ProcessMessage(messageId, c) ==
    LET signal  == parseSignal(Texts[c], messageId, processedMessages)
        verdict == GateVerdict(signal, messageId)
        p       == getPreferences
        run     == verdict = "accepted" /\ ~p.confirmBeforeOrder
        accEv   == (IF Len(signal.dcaLevels) > 0
                    THEN <<Ev("signal:dcaDetected", "", "")>> ELSE <<>>)
                   \o <<Ev("signalAccepted", "", "")>>
                   \o (IF p.confirmBeforeOrder
                       THEN <<Ev("confirmRequired", "", "")>> ELSE <<>>)
    IN  /\ gateLog' = [msgId |-> messageId, content |-> c, verdict |-> verdict,
                       events |-> IF verdict = "accepted" THEN accEv
                                  ELSE GateEvents(verdict, signal),
                       logged |-> GateLogged(verdict, signal),
                       executed |-> run]
        /\ processedMessages' = IF MarksProcessed(verdict)
                                THEN processedMessages \cup {messageId}
                                ELSE processedMessages
        /\ IF verdict = "accepted"
           THEN /\ activeSignals' =
                      [m \in DOMAIN activeSignals \cup {messageId} |->
                          IF m = messageId THEN [signal |-> signal, version |-> 1]
                          ELSE activeSignals[m]]
                /\ execs' = IF run
                            THEN Append(execs, StartExec(signal, p, messageId, "processMessage"))
                            ELSE execs
           ELSE UNCHANGED <<activeSignals, execs>>
        /\ UNCHANGED <<chatVars, utilVars,
                       instruments, whitelist, prefs, pendingFills, exOrders,
                       polls, stops, orderHistory, fillsSeen>>

\* confirmAndExecute: the dashboard hands back the signal of a confirmRequired
\* event and the engine executes it under the preferences of that moment
ConfirmAndExecute(m) ==
    /\ m \in DOMAIN activeSignals
    /\ execs' = Append(execs, StartExec(activeSignals[m].signal, getPreferences,
                                        m, "confirmAndExecute"))
    /\ UNCHANGED <<chatVars, utilVars, gateLog, processedMessages, activeSignals,
                   instruments, whitelist, prefs, pendingFills, exOrders,
                   polls, stops, orderHistory, fillsSeen>>

-----------------------------------------------------------------------------
(* signalParser.js: parseEditDiff; orderEngine.js: processMessageEdit *)

\* the levels of the TPs in tps that are hit
HitLevels(tps) ==
    LET hit == SelectSeq(tps, LAMBDA t : t.hit)
    IN  [i \in 1..Len(hit) |-> hit[i].level]

\* mutant: the diff is taken from the new text alone
parseEditDiff_NewOnly(oldContent, newContent) ==
    LET newSignal == parseSignal(newContent, "", {})
        fresh == SelectSeq(newSignal.tpLevels, LAMBDA t : t.hit)
    IN  [tpHits |-> [i \in 1..Len(fresh) |-> fresh[i].level],
         isClosed |-> newSignal.isClosed,
         finalPnl |-> newSignal.finalPnl]

\* TP levels hit in the new text and absent or not hit in the old one, a closure
\* only when the old text was not closed, the final P&L of the new text
parseEditDiff(oldContent, newContent) ==
    LET oldSignal == parseSignal(oldContent, "", {})
        newSignal == parseSignal(newContent, "", {})
        OldHit(level) ==
            \E i \in 1..Len(oldSignal.tpLevels) :
                /\ oldSignal.tpLevels[i].level = level
                /\ \A j \in 1..(i - 1) : oldSignal.tpLevels[j].level # level
                /\ oldSignal.tpLevels[i].hit
        fresh == SelectSeq(newSignal.tpLevels, LAMBDA t : t.hit /\ ~OldHit(t.level))
    IN  [tpHits |-> [i \in 1..Len(fresh) |-> fresh[i].level],
         isClosed |-> ~oldSignal.isClosed /\ newSignal.isClosed,
         finalPnl |-> newSignal.finalPnl]

\* an event of the edit stream with the version it carries
EditEv(type, version, tpHits) == [type |-> type, version |-> version, tpHits |-> tpHits]

\* mutant: a closure leaves the record in place
AfterEdit_NoRemoval(records, messageId, isClosed) ==
    IF messageId \in DOMAIN records
    THEN [records EXCEPT ![messageId].version = @ + 1]
    ELSE records

\* activeSignals after an edit: tracked.version++ (lines 171-174), and the
\* record deleted when the diff reports a closure (line 197)
AfterEdit(records, messageId, isClosed) ==
    IF isClosed THEN Del(records, messageId)
    ELSE IF messageId \in DOMAIN records
    THEN [records EXCEPT ![messageId].version = @ + 1]
    ELSE records

\* mutant: an edit without old text reports nothing
ProcessMessageEdit_NothingWithoutOld(msg) ==
    LET updated == parseSignal(EditTexts[msg.content], msg.messageId, processedMessages)
        diff    == IF msg.oldContent # ""
                   THEN parseEditDiff(EditTexts[msg.oldContent], EditTexts[msg.content])
                   ELSE [tpHits |-> <<>>, isClosed |-> FALSE, finalPnl |-> ""]
        tracked == msg.messageId \in DOMAIN activeSignals
        version == IF tracked THEN activeSignals[msg.messageId].version + 1 ELSE 1
        events  == (IF Len(diff.tpHits) > 0
                    THEN <<EditEv("signal:tpHit", version, diff.tpHits)>> ELSE <<>>)
                   \o (IF diff.isClosed
                       THEN <<EditEv("signal:closed", version, <<>>)>> ELSE <<>>)
                   \o <<EditEv("signal:edit", version, diff.tpHits)>>
    IN  IF ~updated.ok
        THEN /\ editLog' = [editLog EXCEPT
                               !.seq = msg.seq, !.msgId = msg.messageId,
                               !.content = msg.content, !.oldContent = msg.oldContent,
                               !.parsed = FALSE, !.tracked = tracked, !.events = <<>>]
             /\ UNCHANGED activeSignals
        ELSE /\ editLog' = [seq |-> msg.seq, msgId |-> msg.messageId,
                            content |-> msg.content, oldContent |-> msg.oldContent,
                            parsed |-> TRUE, tracked |-> tracked, events |-> events,
                            applied |-> Append(editLog.applied,
                                               <<msg.messageId, msg.seq>>),
                            closed |-> [editLog.closed EXCEPT ![msg.messageId] =
                                           @ + IF diff.isClosed THEN 1 ELSE 0]]
             /\ activeSignals' = AfterEdit(activeSignals, msg.messageId, diff.isClosed)

\* editLog.closed counts the signal:closed events emitted per message identity
\* processMessageEdit(msg): msg.content and msg.oldContent name texts, "" is no
\* old text; msg.seq numbers the message update the event stems from
ProcessMessageEdit(msg) ==
    LET updated == parseSignal(EditTexts[msg.content], msg.messageId, processedMessages)
        diff    == IF msg.oldContent # ""
                   THEN parseEditDiff(EditTexts[msg.oldContent], EditTexts[msg.content])
                   ELSE [tpHits |-> HitLevels(updated.tpLevels),
                         isClosed |-> updated.isClosed,
                         finalPnl |-> updated.finalPnl]
        tracked == msg.messageId \in DOMAIN activeSignals
        version == IF tracked THEN activeSignals[msg.messageId].version + 1 ELSE 1
        events  == (IF Len(diff.tpHits) > 0
                    THEN <<EditEv("signal:tpHit", version, diff.tpHits)>> ELSE <<>>)
                   \o (IF diff.isClosed
                       THEN <<EditEv("signal:closed", version, <<>>)>> ELSE <<>>)
                   \o <<EditEv("signal:edit", version, diff.tpHits)>>
    IN  IF ~updated.ok
        THEN /\ editLog' = [editLog EXCEPT
                               !.seq = msg.seq, !.msgId = msg.messageId,
                               !.content = msg.content, !.oldContent = msg.oldContent,
                               !.parsed = FALSE, !.tracked = tracked, !.events = <<>>]
             /\ UNCHANGED activeSignals
        ELSE /\ editLog' = [seq |-> msg.seq, msgId |-> msg.messageId,
                            content |-> msg.content, oldContent |-> msg.oldContent,
                            parsed |-> TRUE, tracked |-> tracked, events |-> events,
                            applied |-> Append(editLog.applied,
                                               <<msg.messageId, msg.seq>>),
                            closed |-> [editLog.closed EXCEPT ![msg.messageId] =
                                           @ + IF diff.isClosed THEN 1 ELSE 0]]
             /\ activeSignals' = AfterEdit(activeSignals, msg.messageId, diff.isClosed)

EditOnly == UNCHANGED <<utilVars, instruments, whitelist, prefs, processedMessages,
                        pendingFills, execs, exOrders, polls, stops, orderHistory,
                        fillsSeen, gateLog>>

-----------------------------------------------------------------------------
(* discordProvider.js: the MessageUpdate handler *)

EditMsg(m, seq, c, old) == [messageId |-> m, seq |-> seq, content |-> c, oldContent |-> old]

\* the chat source edits message m of the monitored channel to text c and the
\* client delivers the update: as a partial message or a full one, with the old
\* message in the cache (its text is then the one before this edit) or not
MessageUpdate(m, c, partial, cached) ==
    LET seq == gateway.sent + 1
        old == IF cached THEN gateway.latest[m] ELSE ""
        g   == [gateway EXCEPT !.sent = seq, !.latest[m] = c]
    IN  /\ gateway.sent < MaxEdits
        /\ IF partial
           THEN /\ gateway' = [g EXCEPT !.fetching =
                                   @ \cup {[seq |-> seq, msgId |-> m, oldContent |-> old]}]
                /\ UNCHANGED <<editLog, activeSignals>>
           ELSE /\ gateway' = g
                /\ ProcessMessageEdit(EditMsg(m, seq, c, old))
        /\ EditOnly

\* newMessage.fetch() resolves with the message as the chat source holds it now
FetchResolved(f) ==
    /\ f \in gateway.fetching
    /\ gateway' = [gateway EXCEPT !.fetching = @ \ {f}]
    /\ ProcessMessageEdit(EditMsg(f.msgId, f.seq, gateway.latest[f.msgId], f.oldContent))
    /\ EditOnly

\* newMessage.fetch() rejects: the update is logged and dropped
FetchFailed(f) ==
    /\ f \in gateway.fetching
    /\ gateway' = [gateway EXCEPT !.fetching = @ \ {f}]
    /\ UNCHANGED <<editLog, activeSignals>>
    /\ EditOnly

-----------------------------------------------------------------------------
(* orderEngine.js: executeSignal *)

\* what the price endpoints can answer: 0 stands for a response without a
\* usable price (parseFloat gives NaN), the others for a price
MarketPrices == {0, 100, 101, 103}

Pow10(k) == IF k = 0 THEN 1 ELSE IF k = 1 THEN 10 ELSE IF k = 2 THEN 100
            ELSE IF k = 3 THEN 1000 ELSE IF k = 4 THEN 10000 ELSE 100000

Abs(x) == IF x < 0 THEN 0 - x ELSE x

\* m * 10^e without trailing zeros in m, as parseFloat prints a decimal
RECURSIVE Canon(_, _)
Canon(m, e) == IF m # 0 /\ m % 10 = 0 THEN Canon(m \div 10, e + 1)
               ELSE [m |-> m, e |-> e]

\* mutant: the quotient is cut after four significant digits, not rounded
ToPrecision4_Truncated(num, den) ==
    LET Fits(e) == IF e >= 0 THEN 1000 * Pow10(e) * den <= num
                   ELSE 1000 * den <= num * Pow10(0 - e)
        e0 == CHOOSE e \in -4..4 : Fits(e) /\ (e = 4 \/ ~Fits(e + 1))
        m0 == IF e0 >= 0 THEN num \div (den * Pow10(e0))
              ELSE (num * Pow10(0 - e0)) \div den
    IN  Canon(m0, e0)

\* parseFloat((num / den).toPrecision(4)) for num, den > 0: the quotient rounded
\* to four significant digits, as mantissa m and decimal exponent e
ToPrecision4(num, den) ==
    LET Fits(e) == IF e >= 0 THEN 1000 * Pow10(e) * den <= num
                   ELSE 1000 * den <= num * Pow10(0 - e)
        e0 == CHOOSE e \in -4..4 : Fits(e) /\ (e = 4 \/ ~Fits(e + 1))
        m0 == IF e0 >= 0
              THEN (2 * num + den * Pow10(e0)) \div (2 * den * Pow10(e0))
              ELSE (2 * num * Pow10(0 - e0) + den) \div (2 * den)
    IN  IF m0 = 10000 THEN Canon(1000, e0 + 1) ELSE Canon(m0, e0)

\* lines 313-315: notional / entryPrice to four significant digits, the entry
\* price given as the fraction priceNum / priceDen
ContractSize(orderAmount, effectiveLeverage, priceNum, priceDen) ==
    ToPrecision4(orderAmount * effectiveLeverage * priceDen, priceNum)

\* mutant: the configured leverage is used whatever the policy
EffectiveLeverage_Saved(p, signal) == p.leverage

EffectiveLeverage(p, signal) ==
    IF p.leverageSource = "signal" /\ signal.leverage # 0 THEN signal.leverage
    ELSE IF p.leverageSource = "max" /\ signal.leverage # 0
    THEN IF p.leverage >= signal.leverage THEN p.leverage ELSE signal.leverage
    ELSE p.leverage

PositionSide(signal) == IF signal.side = "long" THEN "long" ELSE "short"

EntrySide(signal) == IF signal.side = "long" THEN "buy" ELSE "sell"

Emit(x, type, r1, r2) == [x EXCEPT !.ev = Append(@, Ev(type, r1, r2))]

Issue(x, call) == [x EXCEPT !.pc = call.op, !.calls = Append(@, call)]

\* an emitted terminal outcome followed by return
Finish(x, type, r1) == [Emit(x, type, r1, "") EXCEPT !.pc = "done"]

\* mutant: the catch block only logs
Caught_Silent(x, message) == [x EXCEPT !.pc = "done"]

\* the catch block of executeSignal
Caught(x, message) == Finish(x, "execution:failed", message)

\* mutant: the slippage fallback changes the order type but keeps the signal's
\* entry price as execution price
PriceAndPlace_KeepsEntry(x, currentMarketPrice) ==
    LET p      == x.prefs
        entry0 == IF x.signal.entryPrice # 0 THEN x.signal.entryPrice
                  ELSE currentMarketPrice
        slip   == /\ p.orderType = "limit"
                  /\ currentMarketPrice # 0
                  /\ entry0 # 0
                  /\ Abs(currentMarketPrice - entry0) * 100 > p.slippagePercent * entry0
        orderType  == IF slip THEN "market" ELSE p.orderType
        size == ContractSize(p.orderAmount, x.lev, entry0, 1)
        x1 == [x EXCEPT !.mkt = currentMarketPrice, !.entryPrice = entry0,
                        !.orderType = orderType]
        x2 == IF slip THEN Emit(x1, "execution:progress", "Slippage exceeded", "")
              ELSE x1
        x3 == Emit([x2 EXCEPT !.size = size], "execution:progress", "Size", "")
    IN  IF entry0 = 0
        THEN Finish([x EXCEPT !.mkt = currentMarketPrice], "execution:failed",
                    "Could not determine entry price")
        ELSE Issue(x3, [Call("placeOrder") EXCEPT
                          !.instId = x.signal.instId,
                          !.positionSide = PositionSide(x.signal),
                          !.side = EntrySide(x.signal),
                          !.orderType = orderType,
                          !.size = size,
                          !.price = IF orderType = "limit" THEN entry0 ELSE 0])

\* lines 289-331: entry price, slippage fallback, size, the entry placeOrder
PriceAndPlace(x, currentMarketPrice) ==
    LET p      == x.prefs
        entry0 == IF x.signal.entryPrice # 0 THEN x.signal.entryPrice
                  ELSE currentMarketPrice
        slip   == /\ p.orderType = "limit"
                  /\ currentMarketPrice # 0
                  /\ entry0 # 0
                  /\ Abs(currentMarketPrice - entry0) * 100 > p.slippagePercent * entry0
        orderType  == IF slip THEN "market" ELSE p.orderType
        entryPrice == IF slip THEN currentMarketPrice ELSE entry0
        size == ContractSize(p.orderAmount, x.lev, entryPrice, 1)
        x1 == [x EXCEPT !.mkt = currentMarketPrice, !.entryPrice = entryPrice,
                        !.orderType = orderType]
        x2 == IF slip THEN Emit(x1, "execution:progress", "Slippage exceeded", "")
              ELSE x1
        x3 == Emit([x2 EXCEPT !.size = size], "execution:progress", "Size", "")
    IN  IF entry0 = 0
        THEN Finish([x EXCEPT !.mkt = currentMarketPrice], "execution:failed",
                    "Could not determine entry price")
        ELSE Issue(x3, [Call("placeOrder") EXCEPT
                          !.instId = x.signal.instId,
                          !.positionSide = PositionSide(x.signal),
                          !.side = EntrySide(x.signal),
                          !.orderType = orderType,
                          !.size = size,
                          !.price = IF orderType = "limit" THEN entryPrice ELSE 0])

Running(e, pc) == e \in 1..Len(execs) /\ execs[e].pc = pc

\* the call the execution is suspended on has answered r
Answered(x, r) == [x EXCEPT !.last = x.pc, !.resp = r]

PriceAnswer(r) == IF r = -1 THEN "throw" ELSE IF r = 0 THEN "noPrice" ELSE "price"

SetExec(e, x) == execs' = [execs EXCEPT ![e] = x]

EngineOnly == UNCHANGED <<chatVars, utilVars,
                          instruments, whitelist, prefs, processedMessages,
                          activeSignals, pendingFills, exOrders, polls, stops,
                          orderHistory, fillsSeen, gateLog>>

\* mutant: an open position does not stop the execution
RespGetPositions_NoSkip(e, r) ==
    /\ Running(e, "getPositions")
    /\ r \in {"none", "flat", "open", "throw"}
    /\ LET x == Answered(execs[e], r)
       IN  SetExec(e, IF r = "throw" THEN Caught(x, "getPositions failed")
                      ELSE Issue(x, Call("setMarginMode")))
    /\ EngineOnly

\* 1. the position query answers
RespGetPositions(e, r) ==
    /\ Running(e, "getPositions")
    /\ r \in {"none", "flat", "open", "throw"}
    /\ LET x == Answered(execs[e], r)
       IN  SetExec(e,
             CASE r = "throw" -> Caught(x, "getPositions failed")
               [] r = "open" -> Finish(x, "execution:skipped", "Already in position")
               [] OTHER -> Issue(x, Call("setMarginMode")))
    /\ EngineOnly

\* mutant: a set-margin-mode failure other than "already set" is fatal
RespSetMarginMode_Fatal(e, r) ==
    /\ Running(e, "setMarginMode")
    /\ r \in {"ok", "already", "throw"}
    /\ LET x   == Emit(Answered(execs[e], r), "execution:progress", "Margin mode set", "")
           lev == EffectiveLeverage(x.prefs, x.signal)
       IN  SetExec(e, IF r = "throw"
                      THEN Caught(Answered(execs[e], r), "setMarginMode failed")
                      ELSE Issue([x EXCEPT !.lev = lev],
                                 [Call("setLeverage") EXCEPT
                                    !.instId = x.signal.instId, !.lev = lev,
                                    !.positionSide = PositionSide(x.signal)]))
    /\ EngineOnly

\* 2.-4. set-margin-mode answers (any failure is swallowed), leverage is chosen
RespSetMarginMode(e, r) ==
    /\ Running(e, "setMarginMode")
    /\ r \in {"ok", "already", "throw"}
    /\ LET x   == Emit(Answered(execs[e], r), "execution:progress", "Margin mode set", "")
           lev == EffectiveLeverage(x.prefs, x.signal)
       IN  SetExec(e, Issue([x EXCEPT !.lev = lev],
                            [Call("setLeverage") EXCEPT
                               !.instId = x.signal.instId, !.lev = lev,
                               !.positionSide = PositionSide(x.signal)]))
    /\ EngineOnly

\* mutant: after a set-leverage failure the margin mode is set again
RespSetLeverage_Reenters(e, r) ==
    /\ Running(e, "setLeverage")
    /\ r \in {"ok", "throw"}
    /\ SetExec(e, Issue(Emit(Answered(execs[e], r), "execution:progress",
                             "Leverage set", ""),
                        IF r = "throw" /\ Len(execs[e].calls) < 4
                        THEN Call("setMarginMode") ELSE Call("getBalance")))
    /\ EngineOnly

\* mutant: an execution whose Active Signal Record is gone ends silently
RespSetLeverage_ChecksRecord(e, r) ==
    /\ Running(e, "setLeverage")
    /\ r \in {"ok", "throw"}
    /\ SetExec(e, IF execs[e].msgId \in DOMAIN activeSignals
                  THEN Issue(Emit(Answered(execs[e], r), "execution:progress",
                                  "Leverage set", ""),
                             Call("getBalance"))
                  ELSE [Answered(execs[e], r) EXCEPT !.pc = "done"])
    /\ EngineOnly

\* 4.-5. set-leverage answers (any failure is swallowed)
RespSetLeverage(e, r) ==
    /\ Running(e, "setLeverage")
    /\ r \in {"ok", "throw"}
    /\ SetExec(e, Issue(Emit(Answered(execs[e], r), "execution:progress",
                             "Leverage set", ""),
                        Call("getBalance")))
    /\ EngineOnly

\* mutant: a low balance does not stop the execution
RespGetBalance_NoCheck(e, r) ==
    /\ Running(e, "getBalance")
    /\ r \in {"enough", "low", "throw"}
    /\ LET x == Answered(execs[e], r)
       IN  SetExec(e,
             CASE r = "throw" -> Caught(x, "getBalance failed")
               [] OTHER -> Issue(x, [Call("getMarkPrice") EXCEPT
                                        !.instId = x.signal.instId]))
    /\ EngineOnly

\* 5. the balance answers: available is 0 when the response carries no details
RespGetBalance(e, r) ==
    /\ Running(e, "getBalance")
    /\ r \in {"enough", "low", "throw"}
    /\ LET x == Answered(execs[e], r)
       IN  SetExec(e,
             CASE r = "throw" -> Caught(x, "getBalance failed")
               [] r = "low" -> Finish(x, "execution:failed", "Insufficient balance")
               [] OTHER -> Issue(x, [Call("getMarkPrice") EXCEPT
                                        !.instId = x.signal.instId]))
    /\ EngineOnly

\* the mark price answers, or throws and the ticker is asked
RespGetMarkPrice(e, r) ==
    /\ Running(e, "getMarkPrice")
    /\ r \in MarketPrices \cup {-1}
    /\ LET x == Answered(execs[e], PriceAnswer(r))
       IN  SetExec(e, IF r = -1
                      THEN Issue(x, [Call("getTicker") EXCEPT
                                        !.instId = x.signal.instId])
                      ELSE PriceAndPlace(x, r))
    /\ EngineOnly

\* the ticker answers, or throws and the market price stays null
RespGetTicker(e, r) ==
    /\ Running(e, "getTicker")
    /\ r \in MarketPrices \cup {-1}
    /\ SetExec(e, PriceAndPlace(Answered(execs[e], PriceAnswer(r)),
                                IF r = -1 THEN 0 ELSE r))
    /\ EngineOnly

PollEnded(o) == polls[o] \in {"noContext", "failed", "filled", "notFilled"}

\* the exchange handles the entry order request; the order it accepts exists
\* (and can fill) from now on, whenever the response reaches the engine.
\* Order ids are unique: the order of execution e gets the id e.
ExPlaceOrder(e, r) ==
    /\ Running(e, "placeOrder")
    /\ execs[e].wire = ""
    /\ r \in {"id", "noid", "throw"}
    /\ SetExec(e, [execs[e] EXCEPT !.wire = r])
    /\ exOrders' = IF r = "id" THEN Put(exOrders, e, "live") ELSE exOrders
    /\ UNCHANGED <<chatVars, utilVars,
                   instruments, whitelist, prefs, processedMessages, activeSignals,
                   pendingFills, polls, stops, orderHistory, fillsSeen, gateLog>>

\* the exchange fills an entry order
ExFill(o) ==
    /\ o \in DOMAIN exOrders
    /\ exOrders[o] = "live"
    /\ exOrders' = [exOrders EXCEPT ![o] = "filled"]
    /\ UNCHANGED <<chatVars, utilVars,
                   instruments, whitelist, prefs, processedMessages, activeSignals,
                   pendingFills, execs, polls, stops, orderHistory, fillsSeen,
                   gateLog>>

DcaWanted(x) ==
    x.prefs.useDca /\ x.prefs.dcaMode = "auto" /\ Len(x.signal.dcaLevels) > 0

\* the placeOrder request of DCA leg i
DcaCall(x, i) ==
    [Call("placeOrder") EXCEPT
        !.instId = x.signal.instId,
        !.positionSide = PositionSide(x.signal),
        !.side = EntrySide(x.signal),
        !.orderType = "limit",
        !.size = ToPrecision4(x.prefs.orderAmount * x.lev, x.signal.dcaLevels[i].price),
        !.price = x.signal.dcaLevels[i].price]

IssueDca(x, i) ==
    [x EXCEPT !.pc = "dca", !.dcaIdx = i, !.calls = Append(@, DcaCall(x, i))]

FillContext(x, dbOrderId) ==
    [signal |-> x.signal, prefs |-> x.prefs, instId |-> x.signal.instId,
     positionSide |-> PositionSide(x.signal), side |-> EntrySide(x.signal),
     size |-> x.size, entryPrice |-> x.entryPrice, leverage |-> x.lev,
     dbOrderId |-> dbOrderId]

\* the order_history row recordOrder inserts
OrderRow(x, orderId) ==
    [orderId |-> orderId, instId |-> x.signal.instId, orderType |-> x.orderType,
     status |-> "placed", tpslId |-> 0, algoId |-> 0]

\* mutant: a response without order id is handled like one with an id
RespPlaceOrder_NoIdCheck(e) ==
    /\ Running(e, "placeOrder")
    /\ execs[e].wire # ""
    /\ LET x == Answered(execs[e], execs[e].wire)
           placed == Emit(x, "execution:progress", "Order placed", "")
       IN  CASE x.resp = "throw" ->
                  /\ SetExec(e, Caught(x, "placeOrder failed"))
                  /\ UNCHANGED <<orderHistory, pendingFills, polls>>
             [] OTHER ->
                  /\ orderHistory' = Append(orderHistory, OrderRow(x, e))
                  /\ pendingFills' = Put(pendingFills, e,
                                         FillContext(x, Len(orderHistory) + 1))
                  /\ polls' = IF x.orderType = "market"
                              THEN Put(polls, e, "timer") ELSE polls
                  /\ SetExec(e, IF DcaWanted(x) THEN IssueDca(placed, 1)
                                ELSE [placed EXCEPT !.pc = "done"])
    /\ UNCHANGED <<chatVars, utilVars,
                   instruments, whitelist, prefs, processedMessages, activeSignals,
                   exOrders, stops, fillsSeen, gateLog>>

\* mutant: the deferred poll is scheduled for limit orders too
RespPlaceOrder_PollsAlways(e) ==
    /\ Running(e, "placeOrder")
    /\ execs[e].wire # ""
    /\ LET x == Answered(execs[e], execs[e].wire)
           placed == Emit(x, "execution:progress", "Order placed", "")
       IN  CASE x.resp = "throw" ->
                  /\ SetExec(e, Caught(x, "placeOrder failed"))
                  /\ UNCHANGED <<orderHistory, pendingFills, polls>>
             [] x.resp = "noid" ->
                  /\ SetExec(e, Finish(x, "execution:failed", "No orderId returned"))
                  /\ UNCHANGED <<orderHistory, pendingFills, polls>>
             [] OTHER ->
                  /\ orderHistory' = Append(orderHistory, OrderRow(x, e))
                  /\ pendingFills' = Put(pendingFills, e,
                                         FillContext(x, Len(orderHistory) + 1))
                  /\ polls' = Put(polls, e, "timer")
                  /\ SetExec(e, IF DcaWanted(x) THEN IssueDca(placed, 1)
                                ELSE [placed EXCEPT !.pc = "done"])
    /\ UNCHANGED <<chatVars, utilVars,
                   instruments, whitelist, prefs, processedMessages, activeSignals,
                   exOrders, stops, fillsSeen, gateLog>>

\* mutant: the order is recorded and its context is stored by a later step
RespPlaceOrder_RecordOnly(e) ==
    /\ Running(e, "placeOrder")
    /\ execs[e].wire # ""
    /\ LET x == Answered(execs[e], execs[e].wire)
           placed == Emit(x, "execution:progress", "Order placed", "")
       IN  CASE x.resp = "throw" ->
                  /\ SetExec(e, Caught(x, "placeOrder failed"))
                  /\ UNCHANGED <<orderHistory, pendingFills, polls>>
             [] x.resp = "noid" ->
                  /\ SetExec(e, Finish(x, "execution:failed", "No orderId returned"))
                  /\ UNCHANGED <<orderHistory, pendingFills, polls>>
             [] OTHER ->
                  /\ orderHistory' = Append(orderHistory, OrderRow(x, e))
                  /\ pendingFills' = pendingFills
                  /\ polls' = IF x.orderType = "market"
                              THEN Put(polls, e, "timer") ELSE polls
                  /\ SetExec(e, IF DcaWanted(x) THEN IssueDca(placed, 1)
                                ELSE [placed EXCEPT !.pc = "done"])
    /\ UNCHANGED <<chatVars, utilVars,
                   instruments, whitelist, prefs, processedMessages, activeSignals,
                   exOrders, stops, fillsSeen, gateLog>>

\* the entry placeOrder response reaches the engine (lines 333-383)
RespPlaceOrder(e) ==
    /\ Running(e, "placeOrder")
    /\ execs[e].wire # ""
    /\ LET x == Answered(execs[e], execs[e].wire)
           placed == Emit(x, "execution:progress", "Order placed", "")
       IN  CASE x.resp = "throw" ->
                  /\ SetExec(e, Caught(x, "placeOrder failed"))
                  /\ UNCHANGED <<orderHistory, pendingFills, polls>>
             [] x.resp = "noid" ->
                  /\ SetExec(e, Finish(x, "execution:failed", "No orderId returned"))
                  /\ UNCHANGED <<orderHistory, pendingFills, polls>>
             [] OTHER ->
                  /\ orderHistory' = Append(orderHistory, OrderRow(x, e))
                  /\ pendingFills' = Put(pendingFills, e,
                                         FillContext(x, Len(orderHistory) + 1))
                  /\ polls' = IF x.orderType = "market"
                              THEN Put(polls, e, "timer") ELSE polls
                  /\ SetExec(e, IF DcaWanted(x) THEN IssueDca(placed, 1)
                                ELSE [placed EXCEPT !.pc = "done"])
    /\ UNCHANGED <<chatVars, utilVars,
                   instruments, whitelist, prefs, processedMessages, activeSignals,
                   exOrders, stops, fillsSeen, gateLog>>

\* what _placeDcaOrders emits when the placeOrder call of a leg has answered
DcaOutcome(x, r) ==
    IF r = "throw" THEN x
    ELSE Emit(x, "execution:progress", "DCA limit order", "")

\* mutant: a failing leg ends the loop
RespDca_AbortOnThrow(e, r) ==
    /\ Running(e, "dca")
    /\ r \in {"id", "noid", "throw"}
    /\ LET x == DcaOutcome(Answered(execs[e], r), r)
       IN  SetExec(e, IF x.dcaIdx < Len(x.signal.dcaLevels) /\ r # "throw"
                      THEN IssueDca(x, x.dcaIdx + 1)
                      ELSE [x EXCEPT !.pc = "done"])
    /\ EngineOnly

\* a DCA leg's placeOrder answers (lines 402-422), then the next leg or the end
RespDca(e, r) ==
    /\ Running(e, "dca")
    /\ r \in {"id", "noid", "throw"}
    /\ LET x == DcaOutcome(Answered(execs[e], r), r)
       IN  SetExec(e, IF x.dcaIdx < Len(x.signal.dcaLevels)
                      THEN IssueDca(x, x.dcaIdx + 1)
                      ELSE [x EXCEPT !.pc = "done"])
    /\ EngineOnly

-----------------------------------------------------------------------------
(* orderEngine.js: the fill supervisor *)

\* mutant: the offset is not inverted for a short position
StopTrigger_NotInverted(ctx) ==
    ctx.entryPrice * (100 - ctx.prefs.trailingStopVariance)

\* the stop trigger price in hundredths: entry * (1 -/+ variance / 100)
StopTrigger(ctx) ==
    IF ctx.positionSide = "long"
    THEN ctx.entryPrice * (100 - ctx.prefs.trailingStopVariance)
    ELSE ctx.entryPrice * (100 + ctx.prefs.trailingStopVariance)

StopCall(ctx) ==
    [Call(IF ctx.prefs.trailingStopType = "tpsl" THEN "placeTPSL" ELSE "placeAlgoOrder")
        EXCEPT !.instId = ctx.instId,
               !.positionSide = ctx.positionSide,
               !.side = IF ctx.positionSide = "long" THEN "sell" ELSE "buy",
               !.size = ctx.size,
               !.price = StopTrigger(ctx),
               !.reduceOnly = TRUE]

\* blofinClient.js: the body placeTPSL posts to /api/v1/trade/order-tpsl
placeTPSL(params) ==
    [path |-> "order-tpsl", instId |-> params.instId,
     positionSide |-> params.positionSide, side |-> params.side,
     size |-> params.size, trigger |-> params.price,
     reduceOnly |-> IF params.reduceOnly THEN "true" ELSE "false"]

\* blofinClient.js: the body placeAlgoOrder posts to /api/v1/trade/order-algo;
\* the reduceOnly parameter is not copied into it ("" is an absent field)
placeAlgoOrder(params) ==
    [path |-> "order-algo", instId |-> params.instId,
     positionSide |-> params.positionSide, side |-> params.side,
     size |-> params.size, trigger |-> params.price,
     reduceOnly |-> ""]

\* what reaches the exchange for a stop call of the engine
StopRequest(call) ==
    IF call.op = "placeTPSL" THEN placeTPSL(call) ELSE placeAlgoOrder(call)

NoStops == [ctx |-> <<>>, calls |-> <<>>, inflight |-> 0, results |-> <<>>, ev |-> <<>>]

StopsOf(o) == IF o \in DOMAIN stops THEN stops[o] ELSE NoStops

\* mutant: the context stays in pendingFills while the stop request is out
PlaceTrailingStop_NoDelete(orderId) ==
    IF orderId \notin DOMAIN pendingFills
    THEN UNCHANGED <<pendingFills, stops>>
    ELSE /\ pendingFills' = pendingFills
         /\ stops' = Put(stops, orderId,
                [StopsOf(orderId) EXCEPT
                    !.ctx = <<pendingFills[orderId]>>,
                    !.calls = Append(@, StopCall(pendingFills[orderId])),
                    !.inflight = @ + 1])

\* _placeTrailingStop up to its await: the context is taken out of pendingFills,
\* then the stop request is issued
PlaceTrailingStop(orderId) ==
    IF orderId \notin DOMAIN pendingFills
    THEN UNCHANGED <<pendingFills, stops>>
    ELSE /\ pendingFills' = Del(pendingFills, orderId)
         /\ stops' = Put(stops, orderId,
                [StopsOf(orderId) EXCEPT
                    !.ctx = <<pendingFills[orderId]>>,
                    !.calls = Append(@, StopCall(pendingFills[orderId])),
                    !.inflight = @ + 1])

FillsSeen(o) == IF o \in DOMAIN fillsSeen THEN fillsSeen[o] ELSE 0

\* the ws 'orderFilled' listener: the feed pushes the fill of an order, once or
\* repeatedly; the exchange pushes order updates on a logged-in connection
\* that subscribed to the orders channel
WsOrderFilled(o) ==
    /\ ws.sock = "open" /\ ws.subscribed
    /\ o \in DOMAIN exOrders
    /\ exOrders[o] = "filled"
    /\ FillsSeen(o) < MaxNotify
    /\ fillsSeen' = Put(fillsSeen, o, FillsSeen(o) + 1)
    /\ IF o \in DOMAIN pendingFills
       THEN PlaceTrailingStop(o)
       ELSE UNCHANGED <<pendingFills, stops>>
    /\ UNCHANGED <<chatVars, utilVars,
                   instruments, whitelist, prefs, processedMessages, activeSignals,
                   execs, exOrders, polls, orderHistory, gateLog>>

\* the 500 ms timer fires: _tryPlaceTrailingStop up to its await
PollFire(o) ==
    /\ o \in DOMAIN polls
    /\ polls[o] = "timer"
    /\ polls' = [polls EXCEPT ![o] = IF o \in DOMAIN pendingFills
                                      THEN "getOrderDetail" ELSE "noContext"]
    /\ UNCHANGED <<chatVars, utilVars,
                   instruments, whitelist, prefs, processedMessages, activeSignals,
                   pendingFills, execs, exOrders, stops, orderHistory, fillsSeen,
                   gateLog>>

\* getOrderDetail answers with the order's state, or throws
RespGetOrderDetail(o, r) ==
    /\ o \in DOMAIN polls
    /\ polls[o] = "getOrderDetail"
    /\ r \in {"state", "throw"}
    /\ polls' = [polls EXCEPT ![o] = IF r = "throw" THEN "failed"
                                      ELSE IF exOrders[o] = "filled" THEN "filled"
                                      ELSE "notFilled"]
    /\ IF r = "state" /\ exOrders[o] = "filled"
       THEN PlaceTrailingStop(o)
       ELSE UNCHANGED <<pendingFills, stops>>
    /\ UNCHANGED <<chatVars, utilVars,
                   instruments, whitelist, prefs, processedMessages, activeSignals,
                   execs, exOrders, orderHistory, fillsSeen, gateLog>>

\* mutant: a failed stop request is reported like a placed one
StopOutcome_AlwaysComplete(type, r) == Ev("execution:complete", type, "")

\* what _placeTrailingStop emits when the stop request has answered
StopOutcome(type, r) ==
    IF r = "throw" THEN Ev("execution:stopFailed", "stop placement failed", "")
    ELSE Ev("execution:complete", type, "")

\* the order_history row after updateOrder(dbOrderId, {tpslId | algoId, status})
UpdateOrder(row, type, id) ==
    IF type = "tpsl" THEN [row EXCEPT !.tpslId = id, !.status = "active"]
    ELSE [row EXCEPT !.algoId = id, !.status = "active"]

\* placeTPSL / placeAlgoOrder answers (lines 483-518)
RespStop(o, r) ==
    /\ o \in DOMAIN stops
    /\ stops[o].inflight > 0
    /\ r \in {"ok", "throw"}
    /\ LET ctx  == stops[o].ctx[1]
           type == ctx.prefs.trailingStopType
       IN  /\ stops' = [stops EXCEPT ![o].inflight = @ - 1,
                                     ![o].results = Append(@, r),
                                     ![o].ev = Append(@, StopOutcome(type, r))]
           /\ orderHistory' =
                 IF r = "ok"
                 THEN [orderHistory EXCEPT
                         ![ctx.dbOrderId] = UpdateOrder(@, type, o)]
                 ELSE orderHistory
    /\ UNCHANGED <<chatVars, utilVars,
                   instruments, whitelist, prefs, processedMessages, activeSignals,
                   pendingFills, execs, exOrders, polls, fillsSeen, gateLog>>

-----------------------------------------------------------------------------
(* The engine after construction and initialize() *)

KnownInstruments == {"BTC-USDT", "ETH-USDT"}

\* no edit handled yet
NoEdit == [seq |-> 0, msgId |-> "", content |-> "", oldContent |-> "",
           parsed |-> FALSE, tracked |-> FALSE, events |-> <<>>, applied |-> <<>>,
           closed |-> [m \in MsgIds |-> 0]]

\* no message update delivered yet, no fetch pending
NoUpdates == [sent |-> 0, latest |-> [m \in MsgIds |-> ""], fetching |-> {}]

\* the callers of acquire()
Callers == {"c1", "c2", "c3"}

\* new RateLimiter(MaxRequests, WindowMs), no acquire() called yet. timestamps
\* holds the age of each recorded request, oldest first; wait[c] is the time left
\* on the timer caller c sleeps on; slots[c] counts the timestamps c pushed,
\* woken[c] the timers of c that fired
NewLimiter ==
    [timestamps |-> <<>>,
     pc    |-> [c \in Callers |-> "idle"],
     wait  |-> [c \in Callers |-> 0],
     slots |-> [c \in Callers |-> 0],
     woken |-> [c \in Callers |-> 0]]

NoCall == [fn |-> "", args |-> <<>>, result |-> <<>>]

\* the private feed after start-up (index.js 66-71): connectPrivate() resolved,
\* subscribeOrders() sent on the open socket. sock is the state of privateWs,
\* subscribed whether the exchange holds an orders subscription for this
\* connection, timer whether a reconnect timer is pending, drops the closures
\* nobody asked for, opened the WebSocket objects created so far
Subscribed ==
    [sock |-> "open", subscribed |-> TRUE, timer |-> FALSE, isClosing |-> FALSE,
     drops |-> 0, opened |-> 1]

NoGate ==
    [msgId |-> "", content |-> "", verdict |-> "", events |-> <<>>,
     logged |-> GateLogged("", NoSignal), executed |-> FALSE]

Init ==
    /\ instruments = KnownInstruments
    /\ whitelist \in {{}, {"alice"}}
    /\ prefs \in PrefProfiles
    /\ processedMessages = {}
    /\ activeSignals = <<>>
    /\ pendingFills = <<>>
    /\ execs = <<>>
    /\ exOrders = <<>>
    /\ polls = <<>>
    /\ stops = <<>>
    /\ orderHistory = <<>>
    /\ fillsSeen = <<>>
    /\ gateLog = NoGate
    /\ editLog = NoEdit
    /\ gateway = NoUpdates
    /\ limiter = NewLimiter
    /\ pure = NoCall
    /\ ws = Subscribed

\* the chat gateway delivers a message, while fewer than cap executions started
Chat(cap) ==
    /\ Len(execs) < cap
    /\ \E m \in MsgIds, c \in Contents : ProcessMessage(m, c)

\* the exchange call execution e is suspended on answers and e runs on
ExecStepOf(e) ==
    \/ \E r \in {"none", "flat", "open", "throw"} : RespGetPositions(e, r)
    \/ \E r \in {"ok", "already", "throw"} : RespSetMarginMode(e, r)
    \/ \E r \in {"ok", "throw"} : RespSetLeverage(e, r)
    \/ \E r \in {"enough", "low", "throw"} : RespGetBalance(e, r)
    \/ \E r \in MarketPrices \cup {-1} : RespGetMarkPrice(e, r)
    \/ \E r \in MarketPrices \cup {-1} : RespGetTicker(e, r)
    \/ \E r \in {"id", "noid", "throw"} : ExPlaceOrder(e, r)
    \/ RespPlaceOrder(e)
    \/ \E r \in {"id", "noid", "throw"} : RespDca(e, r)

\* an exchange call of an execution answers and the execution runs on
ExecStep == \E e \in 1..Len(execs) : ExecStepOf(e)

\* the exchange fills and notifies, the poll timer fires, a stop request answers
FillStep ==
    \E o \in DOMAIN exOrders :
        \/ ExFill(o)
        \/ WsOrderFilled(o)
        \/ PollFire(o)
        \/ \E r \in {"state", "throw"} : RespGetOrderDetail(o, r)
        \/ \E r \in {"ok", "throw"} : RespStop(o, r)

\* the whole engine
Next == Chat(MaxRun) \/ ExecStep \/ FillStep

Spec == Init /\ [][Next]_vars

\* the chat side: messages keep arriving while the executions they started are
\* suspended on the exchange, which answers the position query only
NextGate ==
    \/ Chat(MaxExec)
    \/ \E e \in 1..Len(execs) :
          \E r \in {"none", "flat", "open", "throw"} : RespGetPositions(e, r)

SpecGate == Init /\ [][NextGate]_vars

\* messages are accepted under confirm-before-order and edited afterwards
InitEdit ==
    /\ Init
    /\ whitelist = {}
    /\ prefs.confirmBeforeOrder

NextEdit ==
    \/ ProcessMessage("m1", "longBTC")
    \/ \E m \in MsgIds, c \in EditContents, partial, cached \in BOOLEAN :
          MessageUpdate(m, c, partial, cached)
    \/ \E f \in gateway.fetching : FetchResolved(f)
    \/ \E f \in gateway.fetching : FetchFailed(f)

SpecEdit == InitEdit /\ [][NextEdit]_vars

\* messages are gated under confirm-before-order; the dashboard confirms
\* tracked signals, and a confirmed signal is executed
NextConfirm ==
    \/ \E m \in MsgIds, c \in Contents : ProcessMessage(m, c)
    \/ Len(execs) < MaxRun /\ \E m \in MsgIds : ConfirmAndExecute(m)
    \/ ExecStep

SpecConfirm == InitEdit /\ [][NextConfirm]_vars

\* two executions side by side, with no order filling
NextPair == Chat(MaxExec) \/ ExecStep

InitPair == Init /\ whitelist = {}

SpecPair == InitPair /\ [][NextPair]_vars

\* one message is accepted and executed while the chat source edits it; every
\* exchange call of a started execution is answered in the end
InitRun ==
    /\ Init
    /\ whitelist = {}
    /\ ~prefs.confirmBeforeOrder

NextRun ==
    \/ Len(execs) < MaxRun /\ ProcessMessage("m1", "longBTC")
    \/ \E e \in 1..Len(execs) : ExecStepOf(e)
    \/ \E c \in {"tp1", "closed"}, cached \in BOOLEAN :
          MessageUpdate("m1", c, FALSE, cached)

SpecRun ==
    /\ InitRun /\ [][NextRun]_vars
    /\ \A e \in 1..MaxRun : WF_vars(e \in 1..Len(execs) /\ ExecStepOf(e))

------------------------------------------------------------------------------
(* blofinWebSocket.js: the private socket, its reconnection and close() *)

SocketOnly == UNCHANGED <<engineVars, chatVars, limiter, pure>>

\* the states of a socket that has not closed yet
Live == {"connecting", "login", "open", "unauth", "closing"}

\* the 'close' event of the socket (lines 79-85): the connection was lost, or
\* the close() asked for completes; a subscription ends with its connection
SocketClosed ==
    /\ ws.sock \in Live
    /\ ws.sock # "closing" => ws.drops < MaxDrops
    /\ ws' = [ws EXCEPT !.sock = "closed",
                        !.subscribed = FALSE,
                        !.timer = @ \/ ~ws.isClosing,
                        !.drops = IF ws.sock = "closing" THEN @ ELSE @ + 1]
    /\ SocketOnly

\* the timer of _scheduleReconnect fires (lines 266-270): _connect creates a
\* new WebSocket
ReconnectTimer ==
    /\ ws.timer
    /\ ws' = [ws EXCEPT !.timer = FALSE, !.sock = "connecting", !.opened = @ + 1]
    /\ SocketOnly

\* the 'open' event (lines 53-68): the heartbeat starts and the login is sent
SocketOpen ==
    /\ ws.sock = "connecting"
    /\ ws' = [ws EXCEPT !.sock = "login"]
    /\ SocketOnly

\* the login is answered or times out (lines 96-137): the promise of _connect
\* settles; on a reconnect its only continuation is the .catch that logs
LoginAnswer(ok) ==
    /\ ws.sock = "login"
    /\ ws' = [ws EXCEPT !.sock = IF ok THEN "open" ELSE "unauth"]
    /\ SocketOnly

\* close() (lines 275-282)
Close ==
    /\ ~ws.isClosing
    /\ ws' = [ws EXCEPT !.isClosing = TRUE,
                        !.sock = IF @ \in Live THEN "closing" ELSE @]
    /\ SocketOnly

\* one signal is executed with a limit order and no DCA orders while the
\* private socket drops, reconnects and is closed
InitSocket ==
    /\ Init
    /\ whitelist = {}
    /\ prefs.orderType = "limit"
    /\ ~prefs.confirmBeforeOrder
    /\ prefs.dcaMode # "auto"

NextSocket ==
    \/ Len(execs) < MaxRun /\ ProcessMessage("m1", "longBTC")
    \/ ExecStep
    \/ FillStep
    \/ SocketClosed
    \/ ReconnectTimer
    \/ SocketOpen
    \/ \E ok \in BOOLEAN : LoginAnswer(ok)
    \/ Close

SpecSocket == InitSocket /\ [][NextSocket]_vars

\* the engine and the gateway as constructed, nothing delivered
Idle ==
    /\ instruments = KnownInstruments
    /\ whitelist = {}
    /\ prefs = CHOOSE p \in PrefProfiles : p.orderType = "market"
    /\ processedMessages = {}
    /\ activeSignals = <<>>
    /\ pendingFills = <<>>
    /\ execs = <<>>
    /\ exOrders = <<>>
    /\ polls = <<>>
    /\ stops = <<>>
    /\ orderHistory = <<>>
    /\ fillsSeen = <<>>
    /\ gateLog = NoGate
    /\ editLog = NoEdit
    /\ gateway = NoUpdates
    /\ ws = Subscribed

------------------------------------------------------------------------------
(* RateLimiter (SpecLimiter) *)

\* mutant: a caller that finds the budget exhausted is rejected
acquire_Rejects(l, c) ==
    LET pruned == SelectSeq(l.timestamps, LAMBDA age : age < WindowMs)
    IN  IF Len(pruned) >= MaxRequests
        THEN [l EXCEPT !.timestamps = pruned, !.pc[c] = "rejected"]
        ELSE [l EXCEPT !.timestamps = Append(pruned, 0),
                       !.pc[c] = "done", !.slots[c] = @ + 1]

\* mutant: a caller woken by its timer takes its slot without looking again
acquire_NoRetry(l, c) ==
    LET pruned == SelectSeq(l.timestamps, LAMBDA age : age < WindowMs)
    IN  IF Len(pruned) >= MaxRequests /\ l.woken[c] = 0
        THEN [l EXCEPT !.timestamps = pruned,
                       !.pc[c] = "sleeping",
                       !.wait[c] = WindowMs - pruned[1] + SafetyMargin]
        ELSE [l EXCEPT !.timestamps = Append(pruned, 0),
                       !.pc[c] = "done", !.slots[c] = @ + 1]

\* lines 24-38: one run of acquire() for caller c up to its await or its end
acquire(l, c) ==
    LET pruned == SelectSeq(l.timestamps, LAMBDA age : age < WindowMs)
    IN  IF Len(pruned) >= MaxRequests
        THEN [l EXCEPT !.timestamps = pruned,
                       !.pc[c] = "sleeping",
                       !.wait[c] = WindowMs - pruned[1] + SafetyMargin]
        ELSE [l EXCEPT !.timestamps = Append(pruned, 0),
                       !.pc[c] = "done", !.slots[c] = @ + 1]

LimiterOnly == UNCHANGED <<engineVars, chatVars, pure, ws>>

\* caller c calls acquire()
AcquireCall(c) ==
    /\ limiter.pc[c] = "idle"
    /\ limiter' = acquire(limiter, c)
    /\ LimiterOnly

\* line 35: the timer of a sleeping caller has run out and fires, now or later;
\* the caller retries
TimerFires(c) ==
    /\ limiter.pc[c] = "sleeping"
    /\ limiter.wait[c] = 0
    /\ limiter' = acquire([limiter EXCEPT !.woken[c] = @ + 1], c)
    /\ LimiterOnly

\* a millisecond passes: every recorded request ages (ages past the window are
\* not told apart), every running timer counts down
Tick ==
    /\ limiter' = [limiter EXCEPT
          !.timestamps = [i \in 1..Len(@) |-> IF @[i] < WindowMs THEN @[i] + 1 ELSE @[i]],
          !.wait = [c \in Callers |-> IF @[c] > 0 THEN @[c] - 1 ELSE 0]]
    /\ LimiterOnly

InitLimiter == Idle /\ limiter = NewLimiter /\ pure = NoCall

NextLimiter ==
    \/ \E c \in Callers : AcquireCall(c)
    \/ \E c \in Callers : TimerFires(c)
    \/ Tick

\* time advances and an expired timer fires
SpecLimiter ==
    /\ InitLimiter /\ [][NextLimiter]_vars
    /\ WF_vars(Tick)
    /\ \A c \in Callers : WF_vars(TimerFires(c))

------------------------------------------------------------------------------
(* signalParser.js, parseSignal called repeatedly on one message (SpecParse) *)

\* texts that only the parser is given: a final P&L under each label, a TP
\* level listed twice, a check mark for a level that is listed twice, and a
\* check mark for a level that has no price line
ParserTexts ==
    [ pnlBoth   |-> <<SideSignal("LONG", "BTC"), Entry(100), Tp(1, 110, "HIT"),
                      Closed, Pnl("P&L", "+5%"), Pnl("Final P&L", "+12%")>>,
      pnlProfit |-> <<SideSignal("LONG", "BTC"), Entry(100), Closed,
                      Pnl("Final profit", "-3%")>>,
      tpTwice   |-> <<SideSignal("LONG", "BTC"), Entry(100),
                      Tp(1, 110, ""), Tp(2, 120, ""), Tp(1, 110, "HIT")>>,
      tpChecked |-> <<SideSignal("LONG", "BTC"), Entry(100),
                      TpCheck(1), Tp(1, 110, ""), Tp(1, 110, ""), TpCheck(3)>> ]

\* every message text of the model
AllTexts == [c \in Contents \cup EditContents \cup DOMAIN ParserTexts |->
                IF c \in Contents THEN Texts[c]
                ELSE IF c \in EditContents THEN EditTexts[c] ELSE ParserTexts[c]]

\* the message identities a caller passes: parseEditDiff passes ''
Identities == MsgIds \cup {""}

InitParse ==
    /\ Idle
    /\ limiter = NewLimiter
    /\ pure \in {[fn |-> "parseSignal", args |-> <<c, m>>, result |-> <<>>] :
                    c \in DOMAIN AllTexts, m \in Identities}

\* parseSignal(content, messageId, seenMessageIds) called at time now
ParseCall(seenMessageIds, now) ==
    /\ pure.fn = "parseSignal"
    /\ Len(pure.result) < MaxParses
    /\ pure' = [pure EXCEPT !.result =
                    Append(@, [seen |-> seenMessageIds, now |-> now,
                               signal |-> parseSignalAt(AllTexts[pure.args[1]],
                                                        pure.args[2],
                                                        seenMessageIds, now)])]
    /\ UNCHANGED <<engineVars, chatVars, limiter, ws>>

NextParse == \E seen \in SUBSET MsgIds, now \in 0..MaxNow : ParseCall(seen, now)

SpecParse == InitParse /\ [][NextParse]_vars

\* parseEditDiff applied to every pair of texts
InitDiff ==
    /\ Idle
    /\ limiter = NewLimiter
    /\ pure \in {[fn |-> "parseEditDiff", args |-> <<old, new>>, result |-> <<>>] :
                    old \in DOMAIN AllTexts, new \in DOMAIN AllTexts}

DiffCall ==
    /\ pure.fn = "parseEditDiff"
    /\ pure.result = <<>>
    /\ pure' = [pure EXCEPT !.result =
                    <<parseEditDiff(AllTexts[pure.args[1]], AllTexts[pure.args[2]])>>]
    /\ UNCHANGED <<engineVars, chatVars, limiter, ws>>

SpecDiff == InitDiff /\ [][DiffCall]_vars

-----------------------------------------------------------------------------
(* Properties of the gate (SpecGate) *)

\* the executions processMessage started for a message identity
HandedOver(m) ==
    {e \in 1..Len(execs) : execs[e].msgId = m /\ execs[e].via = "processMessage"}

\* a step in which processMessage ran and did something observable
DeliveryStep ==
    \/ gateLog' # gateLog
    \/ processedMessages' # processedMessages
    \/ Len(execs') > Len(execs)

\* the checks of the gate on message m with text c, each on its own
Parsed(m, c) == parseSignal(Texts[c], m, {})

FailsWhitelist(m, c) ==
    /\ whitelist # {}
    /\ \A w \in whitelist : ToLower(w) # ToLower(Parsed(m, c).traderName)

FailsInstrument(m, c) == Parsed(m, c).instId \notin instruments

PassesAll(m, c) ==
    /\ Parsed(m, c).ok
    /\ m \notin processedMessages
    /\ ~FailsWhitelist(m, c)
    /\ ~Parsed(m, c).isClosed
    /\ ~FailsInstrument(m, c)

Rejections(evs) == SelectSeq(evs, LAMBDA ev : ev.type = "signalRejected")

\* C2: whatever messages arrive, and however often the same message identity is
\* delivered again while its execution is still suspended on the exchange,
\* processMessage starts executeSignal at most once per message identity.
C2_ExecutedAtMostOnce == \A m \in MsgIds : Cardinality(HandedOver(m)) <= 1

\* a message identity is delivered again while its execution is still running
C2_Witness ==
    /\ gateLog.verdict = "duplicate"
    /\ \E e \in HandedOver(gateLog.msgId) : execs[e].pc # "done"

\* what the gate must emit for message m with text c, by the order of its checks
C8_Expected(m, c) ==
    IF ~Parsed(m, c).ok \/ m \in processedMessages THEN <<>>
    ELSE IF FailsWhitelist(m, c)
    THEN <<Ev("signalRejected", "Trader not whitelisted", Parsed(m, c).traderName)>>
    ELSE IF Parsed(m, c).isClosed
    THEN <<Ev("signalRejected", "Signal already closed", "")>>
    ELSE IF FailsInstrument(m, c)
    THEN <<Ev("signalRejected", "Unknown instrument", Parsed(m, c).instId)>>
    ELSE <<>>

\* C8: the gate checks already-processed, whitelist, closed, unknown instrument
\* in this order and stops at the first that fails: every delivery emits exactly
\* the one signalRejected of its earliest failing check and nothing else, and an
\* already-processed message emits nothing and logs nothing.
C8_GateOrder ==
    [][DeliveryStep =>
         LET m == gateLog'.msgId
             c == gateLog'.content
         IN  /\ Rejections(gateLog'.events) = C8_Expected(m, c)
             /\ ~PassesAll(m, c) => gateLog'.events = C8_Expected(m, c)
             /\ (Parsed(m, c).ok /\ m \in processedMessages) =>
                    /\ gateLog'.events = <<>>
                    /\ ~gateLog'.logged.written]_vars

\* a closed signal of a trader off the whitelist on an unknown instrument is
\* reported as not whitelisted
C8_Witness ==
    /\ gateLog.content = "closedXYZ"
    /\ whitelist = {"alice"}
    /\ gateLog.events = <<Ev("signalRejected", "Trader not whitelisted", "bob")>>

\* C9: a message identity enters processedMessages only in a delivery that
\* passed every check; a delivery that fails the whitelist, closed or instrument
\* check changes neither processedMessages nor activeSignals, so the identity is
\* still unprocessed when it is delivered again.
C9_MarkedOnlyWhenAccepted ==
    [][DeliveryStep =>
         LET m == gateLog'.msgId
             c == gateLog'.content
         IN  /\ processedMessages' # processedMessages =>
                    /\ PassesAll(m, c)
                    /\ processedMessages' = processedMessages \cup {m}
             /\ ~PassesAll(m, c) =>
                    /\ processedMessages' = processedMessages
                    /\ activeSignals' = activeSignals]_vars

\* a delivery was rejected and its identity is still unprocessed, while another
\* message has been accepted
C9_Witness ==
    /\ Len(Rejections(gateLog.events)) = 1
    /\ gateLog.msgId \notin processedMessages
    /\ processedMessages # {}

\* a delivery of a closed signal whose message identity was not processed before
ClosedFirstDelivery ==
    /\ DeliveryStep
    /\ Parsed(gateLog'.msgId, gateLog'.content).ok
    /\ Parsed(gateLog'.msgId, gateLog'.content).isClosed
    /\ gateLog'.msgId \notin processedMessages

\* C10 as claimed: a closed signal delivered first for its message identity is
\* rejected with reason "Already closed" and never executed.
C10_AsClaimed ==
    [][ClosedFirstDelivery =>
         /\ gateLog'.logged.rejectionReason = <<"Already closed", "">>
         /\ Len(Rejections(gateLog'.events)) = 1
         /\ ~gateLog'.executed
         /\ execs' = execs]_vars

\* C10, amended: a closed signal delivered first for its message identity is
\* never executed; when it passes the whitelist check it is logged with reason
\* "Already closed" and rejected on the outcome stream with "Signal already
\* closed", and when a non-empty whitelist does not list its trader the
\* whitelist rejection is what is logged and emitted.
C10_ClosedNeverExecuted ==
    [][ClosedFirstDelivery =>
         LET m == gateLog'.msgId
             c == gateLog'.content
         IN  /\ ~gateLog'.executed
             /\ execs' = execs
             /\ processedMessages' = processedMessages
             /\ IF FailsWhitelist(m, c)
                THEN /\ gateLog'.events = <<Ev("signalRejected", "Trader not whitelisted",
                                               Parsed(m, c).traderName)>>
                     /\ gateLog'.logged.rejectionReason =
                            <<"Trader not whitelisted", Parsed(m, c).traderName>>
                ELSE /\ gateLog'.events = <<Ev("signalRejected", "Signal already closed", "")>>
                     /\ gateLog'.logged.rejectionReason = <<"Already closed", "">>]_vars

\* a closed signal of a whitelisted trader was rejected as already closed
C10_Witness ==
    /\ gateLog.content = "closedBTC"
    /\ whitelist = {"alice"}
    /\ gateLog.logged.rejectionReason = <<"Already closed", "">>
    /\ gateLog.events = <<Ev("signalRejected", "Signal already closed", "")>>
    /\ HandedOver(gateLog.msgId) = {}

-----------------------------------------------------------------------------
(* Properties of the fill supervisor and of executeSignal (Spec, SpecPair) *)

\* the order_history rows of entry order o
RowsOf(o) == {i \in 1..Len(orderHistory) : orderHistory[i].orderId = o}

\* C1: for every entry order, whatever the interleaving of streamed fill
\* notifications (duplicates included) and the deferred poll, at most one stop
\* request (placeTPSL or placeAlgoOrder) is issued, and from the moment it is
\* issued the order has no context in pendingFills.
C1_AtMostOneStop ==
    \A o \in DOMAIN stops :
        /\ Len(stops[o].calls) <= 1
        /\ stops[o].calls # <<>> => o \notin DOMAIN pendingFills

\* the fill was pushed twice and the poll saw the order filled too, and one stop
\* request went out
C1_Witness ==
    \E o \in DOMAIN stops :
        /\ FillsSeen(o) >= 2
        /\ o \in DOMAIN polls /\ polls[o] = "filled"
        /\ Len(stops[o].calls) = 1

\* every trigger entry order o can get has happened: its placeOrder response was
\* handled, its fill was pushed, its poll (if one was scheduled) has ended and
\* no stop request is out
Settled(o) ==
    /\ exOrders[o] = "filled"
    /\ RowsOf(o) # {}
    /\ FillsSeen(o) >= 1
    /\ o \in DOMAIN polls => PollEnded(o)
    /\ StopsOf(o).inflight = 0

\* C3 as claimed: every entry order the exchange accepted and filled gets
\* exactly one stop request, limit or market, whatever the order of the fill
\* notification, the placeOrder response and the poll; stated on the states in
\* which every trigger of the order has happened.
C3_AsClaimed ==
    \A o \in DOMAIN exOrders : Settled(o) => Len(StopsOf(o).calls) = 1

\* C4: when the position query answers with a position of nonzero size, the
\* execution ends with execution:skipped and not execution:failed, getPositions
\* stays its only exchange call, and the signal gets no order, no order record
\* and no context in pendingFills.
C4_OpenPositionSkips ==
    \A e \in 1..Len(execs) :
        (execs[e].last = "getPositions" /\ execs[e].resp = "open") =>
            /\ execs[e].pc = "done"
            /\ Types(execs[e].ev) = <<"execution:start", "execution:skipped">>
            /\ execs[e].calls = <<Call("getPositions")>>
            /\ e \notin DOMAIN exOrders
            /\ e \notin DOMAIN pendingFills
            /\ e \notin DOMAIN stops
            /\ RowsOf(e) = {}

\* an execution was skipped for an open position
C4_Witness ==
    \E e \in 1..Len(execs) :
        /\ execs[e].last = "getPositions" /\ execs[e].resp = "open"
        /\ execs[e].ev[Len(execs[e].ev)] = Ev("execution:skipped", "Already in position", "")

Throws(e, op) ==
    /\ execs[e].pc = op
    /\ execs'[e] # execs[e]
    /\ execs'[e].last = op
    /\ execs'[e].resp = "throw"

\* C6: when the position query, the balance query or the entry placeOrder
\* throws, the execution ends there: it issues no further call, emits
\* execution:failed once, returns normally, leaves pendingFills and the order
\* records as they were and touches no other execution.
C6_ThrowAborts ==
    [][\A e \in 1..Len(execs) :
         (\E op \in {"getPositions", "getBalance", "placeOrder"} : Throws(e, op)) =>
            /\ execs'[e].pc = "done"
            /\ execs'[e].calls = execs[e].calls
            /\ Len(execs'[e].ev) = Len(execs[e].ev) + 1
            /\ Count(Types(execs'[e].ev), "execution:failed") = 1
            /\ execs'[e].ev[Len(execs'[e].ev)].type = "execution:failed"
            /\ pendingFills' = pendingFills
            /\ orderHistory' = orderHistory
            /\ polls' = polls
            /\ \A f \in 1..Len(execs) : f # e => execs'[f] = execs[f]]_vars

\* the first execution failed on a throwing placeOrder and the second one went
\* on to place its order
C6_Witness ==
    /\ Len(execs) = 2
    /\ execs[1].pc = "done"
    /\ execs[1].last = "placeOrder" /\ execs[1].resp = "throw"
    /\ Count(Types(execs[1].ev), "execution:failed") = 1
    /\ 1 \notin DOMAIN pendingFills
    /\ 2 \in DOMAIN pendingFills

\* C7 as claimed: a DCA leg whose placeOrder call fails produces exactly one
\* outcome event that carries a reason.
C7_AsClaimed ==
    [][\A e \in 1..Len(execs) :
         Throws(e, "dca") =>
            /\ Len(execs'[e].ev) = Len(execs[e].ev) + 1
            /\ execs'[e].ev[Len(execs'[e].ev)].reason # <<"", "">>]_vars

-----------------------------------------------------------------------------
(* Properties of the whitelist, the slippage fallback, DCA and the stop request *)

\* C11: with a non-empty whitelist, a signal whose trader matches no entry in
\* any letter case is rejected with a reason naming the trader and is not
\* executed; a signal whose trader matches an entry in any letter case, and
\* every signal when the whitelist is empty, is not rejected by the whitelist.
C11_WhitelistCaseInsensitive ==
    [][(DeliveryStep /\ Parsed(gateLog'.msgId, gateLog'.content).ok
                     /\ gateLog'.msgId \notin processedMessages) =>
         LET name   == Parsed(gateLog'.msgId, gateLog'.content).traderName
             listed == \E w \in whitelist : ToLower(w) = ToLower(name)
         IN  IF whitelist # {} /\ ~listed
             THEN /\ gateLog'.events = <<Ev("signalRejected", "Trader not whitelisted", name)>>
                  /\ gateLog'.logged.rejectionReason = <<"Trader not whitelisted", name>>
                  /\ ~gateLog'.executed
                  /\ execs' = execs
             ELSE \A i \in 1..Len(gateLog'.events) :
                      gateLog'.events[i].reason[1] # "Trader not whitelisted"]_vars

\* the whitelist holds "alice" and a signal of trader "Alice" was accepted
C11_Witness ==
    /\ whitelist = {"alice"}
    /\ gateLog.content = "shortETH"
    /\ Parsed(gateLog.msgId, gateLog.content).traderName = "Alice"
    /\ gateLog.msgId \in processedMessages
    /\ Len(Rejections(gateLog.events)) = 0
    /\ Len(gateLog.events) > 0

\* the entry placeOrder requests execution e has issued
EntryCalls(e) ==
    SelectSeq(execs[e].calls,
              LAMBDA c : c.op = "placeOrder" /\ c.orderType = execs[e].orderType
                                             /\ c.size = execs[e].size)

\* the market price deviates from the signal's entry price by more than the
\* configured slippage percent
Deviates(x) ==
    /\ x.mkt # 0
    /\ x.signal.entryPrice # 0
    /\ Abs(x.mkt - x.signal.entryPrice) * 100 > x.prefs.slippagePercent * x.signal.entryPrice

\* C12: for a configured limit order at a signal's entry price, once the entry
\* order is requested: if the market price deviates from the entry price by more
\* than the slippage percent, the slippage outcome was emitted once, the order
\* requested is a market order, and the market price is the execution price used
\* for the size and stored in the Pending Fill Context; otherwise no slippage
\* outcome was emitted and the order is a limit order at the signal's entry price.
C12_SlippageDowngrade ==
    \A e \in 1..Len(execs) :
        LET x    == execs[e]
            slip == Ev("execution:progress", "Slippage exceeded", "")
        IN  (x.orderType # "" /\ x.prefs.orderType = "limit" /\ x.signal.entryPrice # 0) =>
              /\ Len(EntryCalls(e)) >= 1
              /\ IF Deviates(x)
                 THEN /\ Count(x.ev, slip) = 1
                      /\ x.orderType = "market"
                      /\ EntryCalls(e)[1].orderType = "market"
                      /\ EntryCalls(e)[1].price = 0
                      /\ x.entryPrice = x.mkt
                      /\ EntryCalls(e)[1].size = ToPrecision4(x.prefs.orderAmount * x.lev, x.mkt)
                      /\ e \in DOMAIN pendingFills =>
                            /\ pendingFills[e].entryPrice = x.mkt
                            /\ pendingFills[e].size = EntryCalls(e)[1].size
                 ELSE /\ Count(x.ev, slip) = 0
                      /\ EntryCalls(e)[1].orderType = "limit"
                      /\ EntryCalls(e)[1].price = x.signal.entryPrice
                      /\ x.entryPrice = x.signal.entryPrice

\* a limit order was downgraded at market price 103 against entry price 100 and
\* its context stored with the market price
C12_Witness ==
    \E e \in DOMAIN pendingFills :
        /\ execs[e].prefs.orderType = "limit"
        /\ execs[e].signal.entryPrice = 100
        /\ execs[e].mkt = 103
        /\ execs[e].orderType = "market"
        /\ pendingFills[e].entryPrice = 103

-----------------------------------------------------------------------------
(* Properties of edits (SpecEdit) *)

\* processMessageEdit handled the edit of message m in this step
Edited(m) ==
    /\ editLog'.seq # editLog.seq
    /\ editLog'.msgId = m
    /\ editLog'.parsed

EventTypes(evs) == {evs[i].type : i \in 1..Len(evs)}

\* C13: a record enters activeSignals with version 1, in the delivery that
\* accepts its message; every edit handled for a tracked message carries the
\* record's version plus one on its events and either leaves the record with
\* that version or, when it emits signal:closed, removes the record; nothing
\* else changes a record.
C13_VersionsIncrease ==
    [][\A m \in MsgIds :
         LET was == m \in DOMAIN activeSignals
             is  == m \in DOMAIN activeSignals'
         IN  /\ (~was /\ is) =>
                   /\ activeSignals'[m].version = 1
                   /\ gateLog'.msgId = m
                   /\ m \notin processedMessages /\ m \in processedMessages'
             /\ (was /\ Edited(m)) =>
                   /\ \A i \in 1..Len(editLog'.events) :
                         editLog'.events[i].version = activeSignals[m].version + 1
                   /\ editLog'.events[Len(editLog'.events)].type = "signal:edit"
                   /\ IF "signal:closed" \in EventTypes(editLog'.events)
                      THEN ~is
                      ELSE is /\ activeSignals'[m].version = activeSignals[m].version + 1
             /\ (was /\ ~Edited(m)) => (is /\ activeSignals'[m] = activeSignals[m])]_vars

\* a tracked message was edited once and then closed by a second edit, which
\* carried version 3 and removed the record
C13_Witness ==
    /\ editLog.tracked
    /\ editLog.msgId \notin DOMAIN activeSignals
    /\ editLog.msgId \in processedMessages
    /\ EventTypes(editLog.events) = {"signal:closed", "signal:edit"}
    /\ \A i \in 1..Len(editLog.events) : editLog.events[i].version = 3

\* C14 as claimed: an edit for a message without a record in activeSignals
\* emits signal:edit only, and changes neither activeSignals nor
\* processedMessages nor pendingFills.
C14_AsClaimed ==
    [][(editLog'.seq # editLog.seq /\ editLog'.msgId \notin DOMAIN activeSignals) =>
          /\ EventTypes(editLog'.events) \subseteq {"signal:edit"}
          /\ activeSignals' = activeSignals
          /\ processedMessages' = processedMessages
          /\ pendingFills' = pendingFills]_vars

\* C19 as claimed: the edits of one message are applied in the order in which
\* the chat source delivered its updates.
C19_AsClaimed ==
    \A i, j \in 1..Len(editLog.applied) :
        (i < j /\ editLog.applied[i][1] = editLog.applied[j][1]) =>
            editLog.applied[i][2] < editLog.applied[j][2]

-----------------------------------------------------------------------------
(* Properties of DCA, of the stop request and of the size *)

\* the placeOrder requests of execution e: the entry order first, then DCA legs
Orders(e) == SelectSeq(execs[e].calls, LAMBDA c : c.op = "placeOrder")

Legs(e) == IF Orders(e) = <<>> THEN <<>> ELSE Tail(Orders(e))

\* C15: with DCA enabled in auto mode and DCA levels in the signal, once the
\* entry order is placed one limit order per level is requested, in level order,
\* same direction, one after the other until every level was attempted whatever
\* the answers were; no leg emits execution:failed or touches pendingFills.
\* With DCA disabled, not in auto mode, or no levels, no leg is requested.
C15_DcaLegs ==
    /\ [](\A e \in 1..Len(execs) :
            LET x      == execs[e]
                levels == x.signal.dcaLevels
                legs   == Legs(e)
            IN  IF x.prefs.useDca /\ x.prefs.dcaMode = "auto" /\ Len(levels) > 0
                THEN /\ Len(legs) <= Len(levels)
                     /\ legs # <<>> => RowsOf(e) # {}
                     /\ \A i \in 1..Len(legs) :
                           /\ legs[i].orderType = "limit"
                           /\ legs[i].price = levels[i].price
                           /\ legs[i].side = Orders(e)[1].side
                           /\ legs[i].positionSide = Orders(e)[1].positionSide
                           /\ legs[i].instId = Orders(e)[1].instId
                           /\ ~legs[i].reduceOnly
                     /\ (RowsOf(e) # {} /\ x.pc = "done") => Len(legs) = Len(levels)
                     /\ (RowsOf(e) # {} /\ x.pc # "done") =>
                           (x.pc = "dca" /\ Len(legs) = x.dcaIdx)
                     /\ RowsOf(e) # {} =>
                           Count(Types(x.ev), "execution:failed") = 0
                ELSE /\ legs = <<>>
                     /\ RowsOf(e) # {} => x.pc = "done")
    /\ [][\A e \in 1..Len(execs) :
            (execs[e].pc = "dca" /\ execs'[e] # execs[e]) =>
                /\ pendingFills' = pendingFills
                /\ orderHistory' = orderHistory]_vars

\* both legs were attempted although the first one failed
C15_Witness ==
    \E e \in 1..Len(execs) :
        /\ execs[e].pc = "done"
        /\ Len(Legs(e)) = 2
        /\ execs[e].resp # "throw"
        /\ Count(execs[e].ev, Ev("execution:progress", "DCA limit order", "")) = 1
        /\ e \in DOMAIN pendingFills

\* C16 as claimed: every stop request that reaches the exchange, combined TP/SL
\* or standalone trigger, is reduce-only, on the side opposite to the entry and
\* for the instrument and size of the entry order.
C16_AsClaimed ==
    \A o \in DOMAIN stops :
        \A i \in 1..Len(stops[o].calls) :
            LET body == StopRequest(stops[o].calls[i])
            IN  /\ body.reduceOnly = "true"
                /\ body.side = IF Orders(o)[1].side = "buy" THEN "sell" ELSE "buy"
                /\ body.instId = Orders(o)[1].instId
                /\ body.size = Orders(o)[1].size

\* size is num / den rounded to four significant digits: written with a
\* four-digit mantissa M and exponent E, it is within half a unit of the last
\* digit of the quotient
Rounded4(size, num, den) ==
    \E k \in 0..3 :
        LET M == size.m * Pow10(k)
            E == size.e - k
        IN  /\ M \in 1000..9999
            /\ E \in -5..5
            /\ IF E >= 0
               THEN 2 * Abs(num - M * Pow10(E) * den) <= Pow10(E) * den
               ELSE 2 * Abs(num * Pow10(0 - E) - M * den) <= den

\* the price the entry order of execution x goes out at: the market price when
\* the signal has no entry price or a limit order was downgraded for slippage,
\* the signal's entry price otherwise
ExecutionPrice(x) ==
    IF x.signal.entryPrice = 0 \/ (x.prefs.orderType = "limit" /\ Deviates(x))
    THEN x.mkt ELSE x.signal.entryPrice

\* C17: the size of the entry order is orderAmount * effectiveLeverage divided by
\* the execution price, rounded to four significant digits, and it is the size
\* kept for the fill; for orderAmount 50, leverage 20 and entry price 0.5 the
\* size is 2000.
C17_EntrySize ==
    /\ ContractSize(50, 20, 1, 2) = [m |-> 2, e |-> 3]
    /\ \A e \in 1..Len(execs) :
          LET x == execs[e]
          IN  Orders(e) # <<>> =>
                /\ x.lev = EffectiveLeverage(x.prefs, x.signal)
                /\ ExecutionPrice(x) > 0
                /\ Rounded4(Orders(e)[1].size,
                            x.prefs.orderAmount * x.lev, ExecutionPrice(x))
                /\ x.size = Orders(e)[1].size
                /\ e \in DOMAIN pendingFills => pendingFills[e].size = x.size

\* an entry order of size 12.14 went out: 50 * 25 / 103 = 12.1359..., after a
\* slippage downgrade from entry price 100 to the market price 103
C17_Witness ==
    \E e \in 1..Len(execs) :
        /\ Orders(e) # <<>>
        /\ execs[e].signal.entryPrice = 100
        /\ ExecutionPrice(execs[e]) = 103
        /\ Orders(e)[1].size = [m |-> 1214, e |-> -2]

------------------------------------------------------------------------------
(* Properties of the signalId (SpecParse) *)

\* C18: two parses of the same content with the same, present message identity
\* yield the same signalId; with an identity present the signalId is the hash of
\* the identity alone, whatever the parse time, the seen-message set and the
\* text are.
C18_SignalIdStable ==
    LET messageId == pure.args[2]
        parsed    == {i \in 1..Len(pure.result) : pure.result[i].signal.ok}
    IN  (pure.fn = "parseSignal" /\ messageId # "") =>
          /\ \A i, j \in parsed :
                pure.result[i].signal.signalId = pure.result[j].signal.signalId
          /\ \A i \in parsed :
                \A c \in DOMAIN AllTexts, seen \in SUBSET MsgIds, now \in 0..MaxNow :
                    LET other == parseSignalAt(AllTexts[c], messageId, seen, now)
                    IN  other.ok => other.signalId = pure.result[i].signal.signalId

\* a message with an identity was parsed twice, at different times, first unseen
\* and then seen, and both parses gave a signal
C18_Witness ==
    /\ pure.fn = "parseSignal"
    /\ pure.args[2] = "m1"
    /\ Len(pure.result) = 2
    /\ pure.result[1].signal.ok /\ pure.result[2].signal.ok
    /\ pure.result[1].now # pure.result[2].now
    /\ pure.result[1].signal.messageType = "new_signal"
    /\ pure.result[2].signal.messageType = "edit_update"

------------------------------------------------------------------------------
(* Properties of the rate limiter (SpecLimiter) *)

\* C20: acquire() never rejects; a caller that finds the budget exhausted sleeps
\* and retries, and every acquire() that was called eventually resolves having
\* pushed exactly one timestamp.
C20_AcquireResolves ==
    /\ [](\A c \in Callers :
            /\ limiter.pc[c] \in {"idle", "sleeping", "done"}
            /\ limiter.slots[c] = IF limiter.pc[c] = "done" THEN 1 ELSE 0)
    /\ \A c \in Callers :
          (limiter.pc[c] # "idle") ~> (limiter.pc[c] = "done" /\ limiter.slots[c] = 1)

\* the three callers have all resolved with one slot each although the budget
\* is one request per window: the last one was served a full window after the
\* one before it
C20_Witness ==
    /\ \A c \in Callers : limiter.pc[c] = "done" /\ limiter.slots[c] = 1
    /\ Len(limiter.timestamps) = 1
    /\ limiter.timestamps[1] = 0

------------------------------------------------------------------------------
(* Properties of executeSignal: concurrency, price discovery, order placement *)

\* C21 as claimed: while an execution has its entry order in flight, no other
\* execution of the same instrument has requested an entry order.
C21_AsClaimed ==
    \A e1, e2 \in 1..Len(execs) :
        (e1 # e2 /\ execs[e1].signal.instId = execs[e2].signal.instId) =>
            ~(execs[e1].pc = "placeOrder" /\ Orders(e2) # <<>>)

\* the calls of execution e to the exchange operation op
CallsOf(e, op) == SelectSeq(execs[e].calls, LAMBDA c : c.op = op)

PriceFailure == Ev("execution:failed", "Could not determine entry price", "")

\* C22 as claimed: for a signal without entry price, a mark price that is
\* unavailable (the call fails, or answers without a usable price) makes the
\* engine ask the ticker; execution:failed for lack of a price is emitted only
\* when the ticker was asked too, and a ticker price that is there is used.
C22_AsClaimed ==
    \A e \in 1..Len(execs) :
        LET x == execs[e]
        IN  (x.signal.entryPrice = 0 /\ Count(x.ev, PriceFailure) > 0) =>
                CallsOf(e, "getTicker") # <<>>

\* the entry placeOrder response of execution e carried no order id and has
\* been handled
NoOrderId(e) == execs[e].wire = "noid" /\ execs[e].pc # "placeOrder"

\* C23: an execution issues at most one entry placeOrder request (every further
\* placeOrder is the request of a DCA leg); when its response carries no order
\* id the execution ends with execution:failed, and the signal gets no order
\* record, no context in pendingFills, no poll, no DCA order and no stop.
C23_NoOrderIdFails ==
    \A e \in 1..Len(execs) :
        LET x == execs[e]
        IN  /\ Len(Orders(e)) <= 1 + (IF DcaWanted(x) THEN Len(x.signal.dcaLevels) ELSE 0)
            /\ \A i \in 1..Len(Legs(e)) : Legs(e)[i] = DcaCall(x, i)
            /\ NoOrderId(e) =>
                  /\ x.pc = "done"
                  /\ x.ev[Len(x.ev)] = Ev("execution:failed", "No orderId returned", "")
                  /\ Count(Types(x.ev), "execution:failed") = 1
                  /\ Len(Orders(e)) = 1
                  /\ RowsOf(e) = {}
                  /\ e \notin DOMAIN pendingFills
                  /\ e \notin DOMAIN polls
                  /\ e \notin DOMAIN stops

\* a market order of a signal with DCA levels came back without an order id
C23_Witness ==
    \E e \in 1..Len(execs) :
        /\ NoOrderId(e)
        /\ execs[e].orderType = "market"
        /\ Len(execs[e].signal.dcaLevels) = 2
        /\ execs[e].prefs.useDca /\ execs[e].prefs.dcaMode = "auto"

\* C24: an entry order has a deferred poll exactly when it was recorded and went
\* out as a market order, configured so or downgraded by the slippage check; a
\* limit order never has one. A poll is scheduled once: it never returns to its
\* timer. A poll that fails or finds the order not filled leaves pendingFills
\* and the stops untouched.
C24_PollForMarketOnly ==
    /\ [](\A e \in 1..Len(execs) :
            LET x == execs[e]
            IN  /\ e \in DOMAIN polls <=> (RowsOf(e) # {} /\ x.orderType = "market")
                /\ RowsOf(e) # {} =>
                      (x.orderType = "market" <=>
                          (x.prefs.orderType = "market" \/ Deviates(x))))
    /\ [][\A o \in DOMAIN polls :
            /\ o \in DOMAIN polls'
            /\ polls'[o] = "timer" => polls[o] = "timer"
            /\ (polls[o] = "getOrderDetail" /\ polls'[o] \in {"notFilled", "failed"}) =>
                  (pendingFills' = pendingFills /\ stops' = stops)]_vars

\* the poll of a limit order downgraded to market found the order not filled,
\* and the order's context is still in pendingFills
C24_Witness ==
    \E o \in DOMAIN polls :
        /\ polls[o] = "notFilled"
        /\ execs[o].prefs.orderType = "limit"
        /\ o \in DOMAIN pendingFills

\* C25: when the balance is below the order amount the execution ends with
\* execution:failed naming the balance, having asked neither the mark price nor
\* the ticker and having placed no order; in every execution the balance query
\* is issued before any price query.
C25_BalanceBeforePrice ==
    \A e \in 1..Len(execs) :
        LET x == execs[e]
        IN  /\ \A i \in 1..Len(x.calls) :
                  x.calls[i].op \in {"getMarkPrice", "getTicker", "placeOrder"} =>
                      \E j \in 1..(i - 1) : x.calls[j].op = "getBalance"
            /\ (x.last = "getBalance" /\ x.resp = "low") =>
                  /\ x.pc = "done"
                  /\ x.ev[Len(x.ev)] = Ev("execution:failed", "Insufficient balance", "")
                  /\ Count(Types(x.ev), "execution:failed") = 1
                  /\ CallsOf(e, "getMarkPrice") = <<>>
                  /\ CallsOf(e, "getTicker") = <<>>
                  /\ Orders(e) = <<>>
                  /\ x.calls[Len(x.calls)].op = "getBalance"

\* an execution ended on a low balance after margin mode and leverage were set
C25_Witness ==
    \E e \in 1..Len(execs) :
        /\ execs[e].last = "getBalance" /\ execs[e].resp = "low"
        /\ Len(execs[e].calls) = 4

\* C26: whatever set-margin-mode answers (success, "already set", any other
\* failure), the execution emits its progress event and issues set-leverage;
\* whatever set-leverage answers, it emits its progress event and issues the
\* balance query. Neither answer ends the execution or emits execution:failed.
C26_BestEffort ==
    [][\A e \in 1..Len(execs) :
         LET x == execs[e]
             y == execs'[e]
         IN  /\ (x.pc = "setMarginMode" /\ y # x) =>
                   /\ y.pc = "setLeverage"
                   /\ y.ev = Append(x.ev, Ev("execution:progress", "Margin mode set", ""))
                   /\ Len(y.calls) = Len(x.calls) + 1
                   /\ y.calls[Len(y.calls)].op = "setLeverage"
             /\ (x.pc = "setLeverage" /\ y # x) =>
                   /\ y.pc = "getBalance"
                   /\ y.ev = Append(x.ev, Ev("execution:progress", "Leverage set", ""))
                   /\ y.calls = Append(x.calls, Call("getBalance"))]_vars

\* set-leverage threw and the execution is waiting for the balance
C26_Witness ==
    \E e \in 1..Len(execs) :
        /\ execs[e].last = "setLeverage" /\ execs[e].resp = "throw"
        /\ execs[e].pc = "getBalance"
        /\ Count(Types(execs[e].ev), "execution:failed") = 0

\* the position of a step in executeSignal
StepRank(pc) ==
    CASE pc = "getPositions" -> 1 [] pc = "setMarginMode" -> 2
      [] pc = "setLeverage" -> 3  [] pc = "getBalance" -> 4
      [] pc = "getMarkPrice" -> 5 [] pc = "getTicker" -> 6
      [] pc = "placeOrder" -> 7   [] pc = "dca" -> 8
      [] OTHER -> 9

\* the calls that may directly follow a call
NextCalls(op) ==
    CASE op = "getPositions" -> {"setMarginMode"}
      [] op = "setMarginMode" -> {"setLeverage"}
      [] op = "setLeverage" -> {"getBalance"}
      [] op = "getBalance" -> {"getMarkPrice"}
      [] op = "getMarkPrice" -> {"getTicker", "placeOrder"}
      [] op = "getTicker" -> {"placeOrder"}
      [] OTHER -> {"placeOrder"}

\* C27: the calls of an execution follow the order position query, set margin
\* mode, set leverage, balance query, mark price (then ticker), entry
\* placeOrder, DCA placeOrders, none of the first six repeated and none skipped
\* on the way; every step of an execution moves it to a later step or ends it,
\* an ended execution stays ended, and an execution that ends before its entry
\* order is requested ends with execution:skipped or execution:failed.
C27_LinearSteps ==
    /\ [](\A e \in 1..Len(execs) :
            LET calls == execs[e].calls
            IN  /\ calls[1].op = "getPositions"
                /\ \A i \in 1..(Len(calls) - 1) :
                      calls[i + 1].op \in NextCalls(calls[i].op)
                /\ \A op \in {"getPositions", "setMarginMode", "setLeverage",
                              "getBalance", "getMarkPrice", "getTicker"} :
                      Len(CallsOf(e, op)) <= 1
                /\ Len(Orders(e)) <= 1 + Len(execs[e].signal.dcaLevels))
    /\ [][\A e \in 1..Len(execs) :
            LET x == execs[e]
                y == execs'[e]
            IN  y # x =>
                  /\ x.pc # "done"
                  /\ \/ StepRank(y.pc) > StepRank(x.pc)
                     \/ x.pc = "placeOrder" /\ y.pc = "placeOrder"
                            /\ x.wire = "" /\ y.calls = x.calls
                     \/ x.pc = "dca" /\ y.pc = "dca" /\ y.dcaIdx = x.dcaIdx + 1
                  /\ (y.pc = "done" /\ StepRank(x.pc) < 7) =>
                        y.ev[Len(y.ev)].type \in {"execution:skipped", "execution:failed"}]_vars

\* an execution went through every step: the mark price threw, the ticker
\* answered, the entry order and two DCA legs were requested
C27_Witness ==
    \E e \in 1..Len(execs) :
        /\ execs[e].pc = "done"
        /\ [i \in 1..Len(execs[e].calls) |-> execs[e].calls[i].op] =
              <<"getPositions", "setMarginMode", "setLeverage", "getBalance",
                "getMarkPrice", "getTicker", "placeOrder", "placeOrder", "placeOrder">>

\* the leverage a policy asks for; signalLeverage 0 is a signal without leverage
PolicyLeverage(policy, configured, signalLeverage) ==
    CASE policy = "saved" -> configured
      [] policy = "signal" -> IF signalLeverage > 0 THEN signalLeverage ELSE configured
      [] policy = "max" ->
            IF signalLeverage > configured THEN signalLeverage ELSE configured

\* C28: the effective leverage is the configured one under policy 'saved', the
\* signal's (when it has one) under 'signal', the larger of the two under 'max';
\* the leverage of an execution's set-leverage call, the leverage its entry size
\* is computed with and the leverage in its Pending Fill Context are that value.
C28_LeveragePolicy ==
    /\ \A policy \in {"saved", "signal", "max"}, configured \in 1..3, sig \in 0..3 :
          EffectiveLeverage([leverageSource |-> policy, leverage |-> configured],
                            [leverage |-> sig])
             = PolicyLeverage(policy, configured, sig)
    /\ \A e \in 1..Len(execs) :
          LET x   == execs[e]
              lev == PolicyLeverage(x.prefs.leverageSource, x.prefs.leverage,
                                    x.signal.leverage)
          IN  /\ \A i \in 1..Len(CallsOf(e, "setLeverage")) :
                    CallsOf(e, "setLeverage")[i].lev = lev
              /\ Orders(e) # <<>> =>
                    Orders(e)[1].size =
                       ContractSize(x.prefs.orderAmount, lev, ExecutionPrice(x), 1)
              /\ e \in DOMAIN pendingFills => pendingFills[e].leverage = lev

\* under policy 'max' a signal's leverage 25 won over the configured 20 and is
\* the leverage of the set-leverage call and of the stored context
C28_Witness ==
    \E e \in DOMAIN pendingFills :
        /\ execs[e].prefs.leverageSource = "max"
        /\ execs[e].prefs.leverage = 20
        /\ execs[e].signal.leverage = 25
        /\ CallsOf(e, "setLeverage")[1].lev = 25
        /\ pendingFills[e].leverage = 25

------------------------------------------------------------------------------
(* Properties of the stop request and of recording (Spec) *)

\* C29: the trigger price of a stop request (in hundredths) is the entry price
\* less variance percent of it for a long position, plus variance percent for a
\* short one, hence below the entry for long and above it for short when the
\* variance is positive; the request is placeTPSL exactly when trailingStopType
\* is 'tpsl' and placeAlgoOrder otherwise.
C29_StopTrigger ==
    \A o \in DOMAIN stops :
        \A i \in 1..Len(stops[o].calls) :
            LET call     == stops[o].calls[i]
                ctx      == stops[o].ctx[1]
                entry    == ctx.entryPrice
                variance == ctx.prefs.trailingStopVariance
            IN  /\ entry > 0
                /\ ctx.positionSide = (IF ctx.signal.side = "long" THEN "long" ELSE "short")
                /\ IF ctx.positionSide = "long"
                   THEN /\ call.price + entry * variance = 100 * entry
                        /\ variance > 0 => call.price < 100 * entry
                   ELSE /\ call.price = 100 * entry + entry * variance
                        /\ variance > 0 => call.price > 100 * entry
                /\ call.op = "placeTPSL" <=> ctx.prefs.trailingStopType = "tpsl"
                /\ call.op = "placeAlgoOrder" <=> ctx.prefs.trailingStopType # "tpsl"
                /\ StopRequest(call).trigger = call.price

\* a short position entered at 103 got a standalone trigger order at 105.06
C29_Witness ==
    \E o \in DOMAIN stops :
        /\ stops[o].calls # <<>>
        /\ stops[o].ctx[1].positionSide = "short"
        /\ stops[o].ctx[1].entryPrice = 103
        /\ stops[o].calls[1].op = "placeAlgoOrder"
        /\ stops[o].calls[1].price = 10506

\* the rows of entry order o in an order history
RowsIn(history, o) == {i \in 1..Len(history) : history[i].orderId = o}

\* C30: the order record and the Pending Fill Context of an entry order come into
\* being in the same step: a step creates the record of an order exactly when it
\* creates its context. In every state a context has its order record, and an
\* order record has its context unless a stop placement has taken it.
C30_RecordedWithContext ==
    /\ [](\A e \in 1..Len(execs) :
            /\ e \in DOMAIN pendingFills =>
                  RowsOf(e) = {pendingFills[e].dbOrderId}
            /\ RowsOf(e) # {} => (e \in DOMAIN pendingFills \/ e \in DOMAIN stops))
    /\ [][\A e \in 1..Len(execs) :
            (RowsIn(orderHistory, e) = {} /\ RowsIn(orderHistory', e) # {})
               <=> (e \notin DOMAIN pendingFills /\ e \in DOMAIN pendingFills')]_vars

\* an order was just recorded: its row is still 'placed' and its context is in
\* pendingFills while the exchange has already filled the order
C30_Witness ==
    \E e \in DOMAIN pendingFills :
        /\ RowsOf(e) # {}
        /\ \A i \in RowsOf(e) : orderHistory[i].status = "placed"
        /\ e \in DOMAIN exOrders /\ exOrders[e] = "filled"
        /\ FillsSeen(e) = 0

------------------------------------------------------------------------------
(* Properties of executions and the chat side (SpecRun, SpecPair) *)

\* the ways an execution ends
Skipped(e) == Count(Types(execs[e].ev), "execution:skipped") = 1

Failed(e) == Count(Types(execs[e].ev), "execution:failed") = 1

Placed(e) == RowsOf(e) # {} /\ e \in DOMAIN pendingFills

\* C31: every started execution ends, and an ended execution was skipped, or
\* failed, or placed its entry order and stored its context, exactly one of the
\* three; a step that handles an edit of the message, a closure included,
\* changes no execution.
C31_ExecutionEnds ==
    /\ \A e \in 1..MaxRun :
          (e \in 1..Len(execs)) ~> (e \in 1..Len(execs) /\ execs[e].pc = "done")
    /\ [](\A e \in 1..Len(execs) :
            execs[e].pc = "done" =>
               /\ Skipped(e) \/ Failed(e) \/ Placed(e)
               /\ ~(Skipped(e) /\ Failed(e))
               /\ ~(Skipped(e) /\ Placed(e))
               /\ ~(Failed(e) /\ Placed(e)))
    /\ [][editLog' # editLog => execs' = execs]_vars

\* the message was closed by an edit while its execution was suspended on the
\* position query, its record is gone, and the execution went on to place the
\* entry order
C31_Witness ==
    \E e \in 1..Len(execs) :
        /\ execs[e].pc = "done"
        /\ Placed(e)
        /\ execs[e].msgId \notin DOMAIN activeSignals
        /\ Len(editLog.applied) = 1
        /\ editLog.content = "closed"


\* C32: a new message that is a valid open signal is accepted whatever the
\* executions in flight are doing, and (without confirmation) starts its own
\* execution at the position query while the others stay where they are
\* suspended.
C32_Interleaves ==
    [][gateLog' # gateLog =>
         LET m == gateLog'.msgId
             s == parseSignal(Texts[gateLog'.content], m, processedMessages)
         IN  (/\ s.ok
              /\ m \notin processedMessages
              /\ ~s.isClosed
              /\ validateSignal(s, instruments).valid)
             => /\ gateLog'.verdict = "accepted"
                /\ m \in DOMAIN activeSignals'
                /\ ~prefs.confirmBeforeOrder
                     => /\ Len(execs') = Len(execs) + 1
                        /\ SubSeq(execs', 1, Len(execs)) = execs
                        /\ execs'[Len(execs')].msgId = m
                        /\ execs'[Len(execs')].pc = "getPositions"]_vars

\* the second signal's execution has run to its end while the first signal's
\* execution is still suspended on its first exchange call
C32_Witness ==
    /\ Len(execs) = 2
    /\ execs[1].msgId # execs[2].msgId
    /\ execs[1].pc = "getPositions"
    /\ execs[2].pc = "done"
    /\ Placed(2)


\* C33: under confirmBeforeOrder a processMessage step starts no execution and
\* issues no exchange call; when it accepts, the message is marked processed
\* and tracked and the events are (signal:dcaDetected,) signalAccepted and
\* confirmRequired; every execution, hence every exchange call, was started by
\* confirmAndExecute.
C33_ConfirmFirst ==
    /\ [][gateLog' # gateLog =>
            /\ execs' = execs
            /\ exOrders' = exOrders
            /\ ~gateLog'.executed
            /\ gateLog'.verdict = "accepted" =>
                 /\ gateLog'.msgId \in processedMessages'
                 /\ gateLog'.msgId \in DOMAIN activeSignals'
                 /\ Count(Types(gateLog'.events), "signalAccepted") = 1
                 /\ gateLog'.events[Len(gateLog'.events)].type = "confirmRequired"
                 /\ Len(gateLog'.events)
                      = 2 + Count(Types(gateLog'.events), "signal:dcaDetected")]_vars
    /\ [](\A e \in 1..Len(execs) :
            /\ execs[e].via = "confirmAndExecute"
            /\ execs[e].msgId \in processedMessages)

\* a signal was accepted with confirmRequired and no execution exists yet
C33_Witness ==
    /\ gateLog.verdict = "accepted"
    /\ Count(Types(gateLog.events), "confirmRequired") = 1
    /\ gateLog.msgId \in processedMessages
    /\ gateLog.msgId \in DOMAIN activeSignals
    /\ execs = <<>>
    /\ exOrders = <<>>

------------------------------------------------------------------------------
(* Properties of the Extractor's edit diff and take-profit list (SpecDiff, SpecParse) *)

\* the levels with a hit entry in a parse
HitIn(signal) ==
    {signal.tpLevels[i].level : i \in {j \in 1..Len(signal.tpLevels) :
                                          signal.tpLevels[j].hit}}

\* a parse that lists no level twice
NoRepeat(signal) ==
    \A i, j \in 1..Len(signal.tpLevels) :
        signal.tpLevels[i].level = signal.tpLevels[j].level => i = j

EditHits(type) ==
    LET evs == SelectSeq(editLog.events, LAMBDA v : v.type = type)
    IN  [i \in 1..Len(evs) |-> evs[i].tpHits]

\* C35: an edit handled without previous text reports every level the new
\* text marks hit (one signal:tpHit event carrying all of them, none when no
\* level is hit) and reports a closure exactly when the new text is closed,
\* whatever earlier edits of the message reported.
C35_NoOldText ==
    (editLog.seq > 0 /\ editLog.parsed /\ editLog.oldContent = "") =>
        LET new  == parseSignal(EditTexts[editLog.content], "", {})
            hits == HitLevels(new.tpLevels)
        IN  /\ EditHits("signal:tpHit") = IF hits = <<>> THEN <<>> ELSE <<hits>>
            /\ Len(EditHits("signal:closed")) = IF new.isClosed THEN 1 ELSE 0
            /\ EditHits("signal:edit") = <<hits>>
            /\ editLog.content = "tp1" => hits = <<1>>
            /\ editLog.content = "tp12" => hits = <<1, 2>>
            /\ editLog.content = "closed" => hits = <<1>> /\ new.isClosed

\* the third edit of one message arrives without previous text and reports
\* TP1 and TP2, although the first edit of the message already reported TP1
C35_Witness ==
    /\ editLog.oldContent = ""
    /\ editLog.content = "tp12"
    /\ Len(editLog.applied) = 3
    /\ \A i \in 1..3 : editLog.applied[i][1] = editLog.msgId
    /\ EditHits("signal:tpHit") = <<(<<1, 2>>)>>


\* C36 as claimed: over any sequence of edits of one message identity,
\* signal:closed is emitted at most once for it.
C36_AsClaimed == \A m \in MsgIds : editLog.closed[m] <= 1


\* the text marks level l hit: a HIT suffix on a line of the level, or a check
\* mark in front of the level, anywhere in the text
MarkedHit(content, l) ==
    \E i \in 1..Len(content) :
        \/ content[i].k = "tp" /\ content[i].n = l /\ content[i].s = "HIT"
        \/ content[i].k = "tpCheck" /\ content[i].n = l

\* C37 as claimed: the take-profit list of a parse has one entry per level, and
\* an entry is hit exactly when the text marks its level hit by either sign.
C37_AsClaimed ==
    (pure.fn = "parseSignal") =>
        \A k \in 1..Len(pure.result) :
            LET signal == pure.result[k].signal
            IN  signal.ok =>
                  /\ NoRepeat(signal)
                  /\ \A i \in 1..Len(signal.tpLevels) :
                        signal.tpLevels[i].hit
                          = MarkedHit(AllTexts[pure.args[1]], signal.tpLevels[i].level)

------------------------------------------------------------------------------
(* Properties of the RateLimiter's window (SpecLimiter) *)

\* the requests granted less than WindowMs ago (a recorded request leaves
\* timestamps only when an acquire() finds it WindowMs old or older)
InWindow == SelectSeq(limiter.timestamps, LAMBDA age : age < WindowMs)

\* C38: at every instant and under every interleaving of callers and timers,
\* at most MaxRequests acquisitions were granted within the last WindowMs
\* (the window that ends now and excludes the instant WindowMs ago); as this
\* holds at every instant it holds for every such window.
C38_WindowBudget ==
    /\ Len(InWindow) <= MaxRequests
    /\ \A c \in Callers : limiter.slots[c] = IF limiter.pc[c] = "done" THEN 1 ELSE 0

\* two waiters were woken, one took the slot at this instant and the other,
\* retrying at the same instant, found the budget used and sleeps a whole
\* window again
C38_Witness ==
    \E b, c \in Callers :
        /\ b # c
        /\ limiter.woken[b] >= 1 /\ limiter.woken[c] >= 1
        /\ limiter.pc[b] = "done" /\ limiter.pc[c] = "sleeping"
        /\ InWindow = <<0>>
        /\ limiter.wait[c] = WindowMs + SafetyMargin

------------------------------------------------------------------------------
(* Properties of the private socket (SpecSocket) *)

\* C39 as claimed: once the private socket is reconnected and logged in again,
\* the orders subscription exists on the new connection (so that the fill of
\* an order held in pendingFills is pushed and its stop placed).
C39_AsClaimed ==
    (ws.opened > 1 /\ ws.sock = "open") => ws.subscribed

\* C40 as claimed: once close() has been called, no WebSocket is created any
\* more, a reconnect scheduled before the call included.
C40_AsClaimed ==
    [][ws.isClosing => ws'.opened = ws.opened]_vars

=============================================================================
